---------------------------- MODULE Spec2Model ----------------------------
(***************************************************************************)
(* A model of the openlabels detection core: the pattern matchers, the     *)
(* span overlap / deduplication sweep and the parallel batch entry points. *)
(*                                                                         *)
(* Conventions.  Rust vectors are TLA+ sequences; a Rust index k is the    *)
(* sequence position k + 1, and every index the program RETURNS is kept    *)
(* 0-based as in the source.  A f64 confidence is an integer number of     *)
(* hundredths (0.85 is 85): the code only compares and caps confidences.   *)
(* A text is a sequence of one-character strings.                          *)
(***************************************************************************)
EXTENDS Integers, Sequences, FiniteSets, TLC

\* An Option<T> is a sequence: None is <<>> and Some(x) is <<x>>.

VARIABLES
    spans,            \* spans.rs: the `spans` argument of the call
    allow_identical,  \* spans.rs: check_overlaps' flag
    spanPc,           \* "input" before the call, then the function called
    spanOut           \* the value the call returned

VARIABLES
    COMPILED_PATTERNS, \* matcher.rs: the global OnceCell<CompiledPatterns>
    matchers,          \* matcher.rs: the PatternMatcher instances constructed
    ctorPatterns,      \* the `patterns` argument each instance was constructed with
    newPanic,          \* the last PatternMatcher::new call panicked
    callSelf,          \* the instance (position in matchers) the last call was made on
    callText,          \* the `text` argument of the last call
    mightOut,          \* Option: what might_contain_patterns(text) returned
    findOut            \* Option: what find_matches(text) returned

VARIABLES
    libPatterns,      \* lib.rs: the `patterns` argument of PatternMatcher::new
    libMatcher,       \* lib.rs: Option of the PyResult<PatternMatcher> it returned
    libText,          \* lib.rs: the `text` argument of find_matches
    libOut            \* lib.rs: Option of the Vec<RawMatch> it returned

VARIABLES
    oncePatterns,     \* matcher.rs: the pattern list every thread constructs with
    onceRunning,      \* the OnceCell's initializer is running in some thread
    threads,          \* per thread: its position in PatternMatcher::new and its locals
    compileCalls,     \* how many times compile_patterns was entered
    installs          \* how many times a catalog was stored in the cell

VARIABLES
    batchOp,          \* the batch entry point called
    validator_name,   \* checksum.rs: checksum_batch's validator_name
    batchInput,       \* its list of items
    batchSlots,       \* per item: Option of what the worker that ran it produced
    batchPc,          \* "running", then "returned" or "panicked"
    batchOut,         \* Option of the list the batch call returned
    singleOut         \* what the single-item operation gave for the first items

VARIABLES
    scoreEntities,    \* scoring.rs: the `entities` argument of the calls
    scoreExposure,    \* the `exposure` argument
    scoreConfidence,  \* the `confidence` argument
    scoreEntities2,   \* the entity map of a further call, a variant of `entities`
    scorePc,          \* "input", then the function called last
    scoreOut,         \* what the calls made so far with `entities` returned
    scoreOut2,        \* Option of what the call with the variant map returned
    coOut             \* Option of what get_co_occurrence_multiplier returned

VARIABLES
    checksumName,     \* checksum.rs: the checksum function called
    checksumInput,    \* its argument
    checksumPc,       \* "input", then "returned" or "panicked"
    checksumOut       \* Option of the (bool, f64) it returned

spanVars == <<spans, allow_identical, spanPc, spanOut>>

riskVars == <<COMPILED_PATTERNS, matchers, ctorPatterns, newPanic, callSelf, callText,
              mightOut, findOut>>

libVars == <<libPatterns, libMatcher, libText, libOut>>

onceVars == <<oncePatterns, onceRunning, threads, compileCalls, installs>>

batchVars == <<batchOp, validator_name, batchInput, batchSlots, batchPc, batchOut, singleOut>>

scoreVars == <<scoreEntities, scoreExposure, scoreConfidence, scoreEntities2,
               scorePc, scoreOut, scoreOut2, coOut>>

checksumVars == <<checksumName, checksumInput, checksumPc, checksumOut>>

\* The variables of the calls of single functions.
pureVars == <<scoreVars, checksumVars>>

vars == <<spanVars, riskVars, libVars, onceVars, batchVars, pureVars>>

-----------------------------------------------------------------------------
(* Bounds of the model. *)

\* Positions of a span are 0..MaxPos.
MaxPos == 3

\* A pattern list has at most MaxPatterns patterns.
MaxPatterns == 2

\* A process constructs at most MaxMatchers PatternMatcher instances.
MaxMatchers == 2

\* usize is kept UsizeBits wide: every count of the model is far below
\* 2^UsizeBits, as the program's counts are below 2^64, so a subtraction
\* wraps in the model exactly when it wraps in the program.
UsizeBits == 16

\* A text has at most MaxTextLen characters.
MaxTextLen == 2

\* check_overlaps gets at most MaxSpans spans.
MaxSpans == 4

\* deduplicate_spans gets at most MaxDedupSpans spans.
MaxDedupSpans == 3

\* MaxThreads threads construct a PatternMatcher at the same time.
MaxThreads == 2

\* A batch call gets at most MaxBatch items.
MaxBatch == 2

\* An entity map of a scoring call has at most MaxEntities keys.
MaxEntities == 2

\* The counts of an entity map are 0..MaxCount.
MaxCount == 2

MaxShortDigits == 2

-----------------------------------------------------------------------------
(* Generic helpers. *)

Range(s) == {s[k] : k \in 1..Len(s)}

SeqsUpTo(S, n) == UNION {[1..k -> S] : k \in 0..n}

Min(a, b) == IF a <= b THEN a ELSE b

-----------------------------------------------------------------------------
(* Texts and the regex crate.  The patterns of the model are written in a  *)
(* fragment of the crate's syntax: a sequence of pieces, each a character  *)
(* class with a greedy quantifier, at most one of them inside capture      *)
(* group 1, itself optional or not.  Matching is the crate's: leftmost     *)
(* first, greedy, backtracking into the earlier pieces.                    *)

Chars == {"1", "8", "-", " "}

Digits == {"1", "8"}

Whitespace == {" "}

Texts == SeqsUpTo(Chars, MaxTextLen)

\* &text[start..end] for byte offsets start <= end (every character of
\* Chars is one byte wide).
Slice(text, start, end) == SubSeq(text, start + 1, end)

Piece(cls, q, cap) == [cls |-> cls, q |-> q, cap |-> cap]

RegexOk(re) == [ok |-> TRUE, re |-> re]

RegexErr == [ok |-> FALSE, re |-> <<>>]

\* Regex::new(pattern_str): Ok(regex), or Err for a pattern that is not a
\* regular expression (here the unclosed group).
RegexNew(src) ==
    CASE src = "\\d+"     -> RegexOk(<<Piece(Digits, "+", "none")>>)
      [] src = "\\s+"     -> RegexOk(<<Piece(Whitespace, "+", "none")>>)
      [] src = "-*"       -> RegexOk(<<Piece({"-"}, "*", "none")>>)
      [] src = "-(\\d+)"  -> RegexOk(<<Piece({"-"}, "1", "none"),
                                       Piece(Digits, "+", "group")>>)
      [] src = "-(\\d)?"  -> RegexOk(<<Piece({"-"}, "1", "none"),
                                       Piece(Digits, "1", "optgroup")>>)
      [] src = "\\d(\\s*)" -> RegexOk(<<Piece(Digits, "1", "none"),
                                        Piece(Whitespace, "*", "group")>>)
      [] src = "("        -> RegexErr

RegexSources == {"\\d+", "\\s+", "-*", "-(\\d+)", "-(\\d)?", "\\d(\\s*)", "("}

\* A regex::Match / regex::Captures: the whole match [start, end) and group
\* 1 [gstart, gend), gstart = -1 when the group did not participate.
NoMatch == [found |-> FALSE, start |-> 0, end |-> 0, gstart |-> -1, gend |-> -1]

\* How many characters from offset pos on are in cls.
RECURSIVE RunLength(_, _, _)
RunLength(cls, text, pos) ==
    IF pos < Len(text) /\ text[pos + 1] \in cls
    THEN 1 + RunLength(cls, text, pos + 1)
    ELSE 0

MinReps(piece) == IF piece.q = "*" THEN 0 ELSE 1

MaxReps(piece, text, pos) ==
    IF piece.q = "1" THEN Min(1, RunLength(piece.cls, text, pos))
    ELSE RunLength(piece.cls, text, pos)

\* The pieces k.. of re matched at offset pos: piece k takes n characters,
\* the most first; an optional group that cannot match is skipped.
RECURSIVE MatchFrom(_, _, _, _, _, _)
RECURSIVE TryReps(_, _, _, _, _, _, _)
MatchFrom(re, k, text, pos, gs, ge) ==
    IF k > Len(re)
    THEN [found |-> TRUE, start |-> 0, end |-> pos, gstart |-> gs, gend |-> ge]
    ELSE TryReps(re, k, text, pos, gs, ge, MaxReps(re[k], text, pos))

TryReps(re, k, text, pos, gs, ge, n) ==
    IF n < MinReps(re[k])
    THEN IF re[k].cap = "optgroup"
         THEN MatchFrom(re, k + 1, text, pos, gs, ge)
         ELSE NoMatch
    ELSE LET inGroup == re[k].cap # "none"
             r == MatchFrom(re, k + 1, text, pos + n,
                            IF inGroup THEN pos ELSE gs,
                            IF inGroup THEN pos + n ELSE ge)
         IN  IF r.found THEN r ELSE TryReps(re, k, text, pos, gs, ge, n - 1)

\* The leftmost match that starts at offset from or later.
RECURSIVE Search(_, _, _)
Search(re, text, from) ==
    IF from > Len(text) THEN NoMatch
    ELSE LET r == MatchFrom(re, 1, text, from, -1, -1)
         IN  IF r.found THEN [r EXCEPT !.start = from]
             ELSE Search(re, text, from + 1)

\* Regex::find_iter / captures_iter: successive non-overlapping matches; an
\* empty match at the end of the previous match is passed over by searching
\* again one character on.
RECURSIVE MatchIter(_, _, _, _)
MatchIter(re, text, start, last) ==
    LET m == Search(re, text, start)
        m2 == Search(re, text, start + 1)
    IN  IF ~m.found THEN <<>>
        ELSE IF m.start = m.end /\ m.end = last
             THEN IF ~m2.found THEN <<>>
                  ELSE <<m2>> \o MatchIter(re, text, m2.end, m2.end)
             ELSE <<m>> \o MatchIter(re, text, m.end, m.end)

find_iter(re, text) == MatchIter(re, text, 0, -1)

\* Regex::is_match, and so membership in RegexSet::matches(text).
is_match(re, text) == Search(re, text, 0).found

-----------------------------------------------------------------------------
(* openrisk/src/matcher.rs: the capture-group matcher over the global      *)
(* catalog.  A pattern is (regex_str, entity_type, confidence, group_idx). *)

\* !matched_text.is_empty() && !matched_text.trim().is_empty()
HasVisibleText(t) == t # <<>> /\ \E k \in 1..Len(t) : t[k] \notin Whitespace

\* The empty catalog under construction: the four vectors of
\* compile_patterns before its loop.
EmptyCatalog ==
    [successful_patterns |-> <<>>, individual_regexes |-> <<>>,
     metadata |-> <<>>, index_map |-> {}]

\* One iteration of compile_patterns' loop, for patterns[k] (original index
\* k - 1): a pattern that compiles is appended to all vectors, another one
\* is passed over.
CompileOne(acc, patterns, k) ==
    LET rx == RegexNew(patterns[k][1])
    IN  IF rx.ok
        THEN [successful_patterns |-> Append(acc.successful_patterns, patterns[k][1]),
              individual_regexes |-> Append(acc.individual_regexes, rx.re),
              metadata |-> Append(acc.metadata,
                                  [entity_type |-> patterns[k][2],
                                   confidence |-> patterns[k][3],
                                   group_idx |-> patterns[k][4]]),
              index_map |-> acc.index_map
                              \cup {<<k - 1, Len(acc.successful_patterns)>>}]
        ELSE acc

RECURSIVE CompileLoop(_, _)
CompileLoop(patterns, n) ==
    IF n = 0 THEN EmptyCatalog
    ELSE CompileOne(CompileLoop(patterns, n - 1), patterns, n)

\* RegexSetBuilder::new(&successful_patterns).build(): the set compiles the
\* pattern strings anew, in their order.
RegexSetNew(srcs) == [k \in 1..Len(srcs) |-> RegexNew(srcs[k]).re]

\* The literals of the Aho-Corasick prefilter.
PrefilterLiterals == {"@", "-", ".", "/", ":", " "}

\* compile_patterns after its loop: the RegexSet and the prefilter are
\* built and the CompiledPatterns value is put together.
FinishCatalog(acc) ==
    [regex_set |-> RegexSetNew(acc.successful_patterns),
     individual_regexes |-> acc.individual_regexes,
     metadata |-> acc.metadata,
     index_map |-> acc.index_map,
     prefilter |-> PrefilterLiterals]

compile_patterns(patterns) == FinishCatalog(CompileLoop(patterns, Len(patterns)))

\* caps.get(group_idx): the model's regexes have at most group 1, and a
\* group index the regex does not have gives None as well.
GroupPresent(m, group_idx) == group_idx = 1 /\ m.gstart >= 0

ReportedSpanWhole(m, group_idx) == <<m.start, m.end>>

\* The span a RawMatch is given: group_match.start() and .end() when a
\* group is asked for, m.start() and m.end() otherwise.
ReportedSpan(m, group_idx) ==
    IF group_idx > 0 THEN <<m.gstart, m.gend>> ELSE <<m.start, m.end>>

\* The RawMatch values one pattern pushes, in iteration order.
RECURSIVE PatternMatches(_, _, _, _, _)
PatternMatches(set_idx, meta, text, ms, k) ==
    IF k > Len(ms) THEN <<>>
    ELSE LET m == ms[k]
             start == ReportedSpan(m, meta.group_idx)[1]
             end == ReportedSpan(m, meta.group_idx)[2]
             rest == PatternMatches(set_idx, meta, text, ms, k + 1)
         IN  IF meta.group_idx > 0 /\ ~GroupPresent(m, meta.group_idx) THEN rest
             ELSE IF ~HasVisibleText(Slice(text, start, end)) THEN rest
             ELSE <<[pattern_id |-> set_idx, start |-> start, end |-> end,
                     text |-> Slice(text, start, end),
                     entity_type |-> meta.entity_type,
                     confidence |-> meta.confidence]>> \o rest

\* The loop over matching_indices, from set index set_idx (0-based) on.
RECURSIVE MatchesFromIndex(_, _, _)
MatchesFromIndex(compiled, text, set_idx) ==
    IF set_idx >= Len(compiled.regex_set) THEN <<>>
    ELSE (IF is_match(compiled.regex_set[set_idx + 1], text)
          THEN PatternMatches(set_idx, compiled.metadata[set_idx + 1], text,
                              find_iter(compiled.individual_regexes[set_idx + 1], text), 1)
          ELSE <<>>)
         \o MatchesFromIndex(compiled, text, set_idx + 1)

find_matches_impl(compiled, text) == MatchesFromIndex(compiled, text, 0)

\* ac.is_match(text) for the prefilter's one-character literals.
might_contain(compiled, text) ==
    \E k \in 1..Len(text) : text[k] \in compiled.prefilter

-----------------------------------------------------------------------------
(* openlabels/core/_rust/src/lib.rs: the validator-aware matcher.  A       *)
(* pattern is (name, regex, validator, confidence), every matcher owns its *)
(* regex_set and patterns.                                                 *)

\* Option<String>::None for a pattern's validator.
NoValidator == "<None>"

AsciiDigits == <<"0", "1", "2", "3", "4", "5", "6", "7", "8", "9">>

IndexIn(seq, c) == CHOOSE k \in 1..Len(seq) : seq[k] = c

\* char::to_digit(10) of an ASCII digit
DigitValue(c) == IndexIn(AsciiDigits, c) - 1

\* text.chars().filter(|c| c.is_ascii_digit()).filter_map(|c| c.to_digit(10))
RECURSIVE DigitsOf(_)
DigitsOf(text) ==
    IF text = <<>> THEN <<>>
    ELSE IF Head(text) \in Range(AsciiDigits)
         THEN <<DigitValue(Head(text))>> \o DigitsOf(Tail(text))
         ELSE DigitsOf(Tail(text))

\* The loop of validate_luhn over digits.iter().rev(): the sum of the
\* digits k..1, `double` being set for digit k.
RECURSIVE LuhnSum(_, _, _)
LuhnSum(digits, k, double) ==
    IF k = 0 THEN 0
    ELSE LET d2 == digits[k] * 2
             d == IF ~double THEN digits[k]
                  ELSE IF d2 > 9 THEN d2 - 9 ELSE d2
         IN  d + LuhnSum(digits, k - 1, ~double)

\* validators.rs: validate_luhn
validate_luhn(text) ==
    LET digits == DigitsOf(text)
    IN  IF Len(digits) < 2 THEN FALSE
        ELSE LuhnSum(digits, Len(digits), FALSE) % 10 = 0

\* validators.rs of openlabels: validate_npi
validate_npi(text) ==
    LET digits == DigitsOf(text)
        prefixed == <<8, 0, 8, 4, 0>> \o digits
    IN  IF Len(digits) # 10 THEN FALSE
        ELSE LuhnSum(prefixed, Len(prefixed), FALSE) % 10 = 0

\* The sum of src/validators.rs luhn over digits.iter().rev().enumerate(),
\* from position i on: the digit at i from the right, doubled for odd i.
RECURSIVE LuhnEnumerated(_, _)
LuhnEnumerated(digits, i) ==
    IF i >= Len(digits) THEN 0
    ELSE LET d == digits[Len(digits) - i]
             doubled == d * 2
         IN  (IF i % 2 = 1 THEN (IF doubled > 9 THEN doubled - 9 ELSE doubled) ELSE d)
                + LuhnEnumerated(digits, i + 1)

\* src/validators.rs: luhn
luhn(number) ==
    LET digits == DigitsOf(number)
    IN  IF Len(digits) < 13 \/ Len(digits) > 19 THEN FALSE
        ELSE LuhnEnumerated(digits, 0) % 10 = 0

\* The validator names the model's patterns carry: one the matcher knows
\* and one it does not.
ValidatorNames == {"luhn", "no_such_validator"}

validateUnknownRejects(text, validator) ==
    CASE validator = "luhn" ->
            IF validate_luhn(text) THEN <<TRUE, 15>> ELSE <<FALSE, 0>>
      [] validator \in ValidatorNames \ {"luhn"} -> <<FALSE, 0>>

\* validate(text, validator): (is_valid, confidence_boost), restricted to
\* ValidatorNames.
validate(text, validator) ==
    CASE validator = "luhn" ->
            IF validate_luhn(text) THEN <<TRUE, 15>> ELSE <<FALSE, 0>>
      [] validator \in ValidatorNames \ {"luhn"} -> <<TRUE, 0>>

\* The loop of PatternMatcher::new up to pattern n: Err as soon as a regex
\* does not compile (the `?` of map_err).
RECURSIVE LibNewLoop(_, _)
LibNewLoop(patterns, n) ==
    IF n = 0 THEN [ok |-> TRUE, regex_patterns |-> <<>>, pattern_infos |-> <<>>]
    ELSE LET acc == LibNewLoop(patterns, n - 1)
             rx == RegexNew(patterns[n][2])
         IN  IF ~acc.ok THEN acc
             ELSE IF ~rx.ok
                  THEN [ok |-> FALSE, regex_patterns |-> <<>>, pattern_infos |-> <<>>]
                  ELSE [ok |-> TRUE,
                        regex_patterns |-> Append(acc.regex_patterns, patterns[n][2]),
                        pattern_infos |-> Append(acc.pattern_infos,
                            [name |-> patterns[n][1], regex |-> rx.re,
                             validator |-> patterns[n][3],
                             base_confidence |-> patterns[n][4]])]

\* PatternMatcher::new: Ok(PatternMatcher { regex_set, patterns }) or Err.
LibPatternMatcherNew(patterns) ==
    LET acc == LibNewLoop(patterns, Len(patterns))
    IN  IF acc.ok
        THEN [ok |-> TRUE, regex_set |-> RegexSetNew(acc.regex_patterns),
              patterns |-> acc.pattern_infos]
        ELSE [ok |-> FALSE, regex_set |-> <<>>, patterns |-> <<>>]

\* The RawMatch values one pattern pushes: every match of find_iter the
\* validator accepts.
RECURSIVE LibPatternMatches(_, _, _, _)
LibPatternMatches(pattern, text, ms, k) ==
    IF k > Len(ms) THEN <<>>
    ELSE LET matched_text == Slice(text, ms[k].start, ms[k].end)
             v == IF pattern.validator = NoValidator THEN <<TRUE, 0>>
                  ELSE validate(matched_text, pattern.validator)
             rest == LibPatternMatches(pattern, text, ms, k + 1)
         IN  IF v[1]
             THEN <<[pattern_name |-> pattern.name,
                     start |-> ms[k].start, end |-> ms[k].end,
                     matched_text |-> matched_text,
                     confidence |-> Min(pattern.base_confidence + v[2], 100),
                     validator |-> pattern.validator]>> \o rest
             ELSE rest

RECURSIVE LibMatchesFromIndex(_, _, _)
LibMatchesFromIndex(self, text, pattern_idx) ==
    IF pattern_idx >= Len(self.regex_set) THEN <<>>
    ELSE (IF is_match(self.regex_set[pattern_idx + 1], text)
          THEN LibPatternMatches(self.patterns[pattern_idx + 1], text,
                                 find_iter(self.patterns[pattern_idx + 1].regex, text), 1)
          ELSE <<>>)
         \o LibMatchesFromIndex(self, text, pattern_idx + 1)

\* PatternMatcher::find_matches
lib_find_matches(self, text) == LibMatchesFromIndex(self, text, 0)

-----------------------------------------------------------------------------
(* spans.rs *)

\* Confidences a detection carries, in hundredths.
Confidences == {85, 99}

\* (start, end) with start < end: the RawMatch invariant of the matcher.
Positions == {<<s, e>> \in (0..MaxPos) \X (0..MaxPos) : s < e}

\* (start, end, entity_type, confidence)
DedupSpans == {<<p[1], p[2], "SSN", c>> : p \in Positions, c \in Confidences}

\* The comparator of indices.sort_by: by start, then by end.
SpanLess(sp, a, b) ==
    \/ sp[a][1] < sp[b][1]
    \/ sp[a][1] = sp[b][1] /\ sp[a][2] < sp[b][2]

\* One insertion of a stable sort: x goes before the first element that is
\* strictly greater, so equal keys keep their original order.
RECURSIVE InsertIndex(_, _, _)
InsertIndex(sp, sorted, x) ==
    IF sorted = <<>> THEN <<x>>
    ELSE IF SpanLess(sp, x, Head(sorted)) THEN <<x>> \o sorted
    ELSE <<Head(sorted)>> \o InsertIndex(sp, Tail(sorted), x)

RECURSIVE SortPrefix(_, _)
SortPrefix(sp, n) ==
    IF n = 0 THEN <<>> ELSE InsertIndex(sp, SortPrefix(sp, n - 1), n)

\* indices = (0..len).collect(); indices.sort_by(..): sequence positions of
\* sp in (start, end) order, stable.
SortedIndices(sp) == SortPrefix(sp, Len(sp))

\* SweepBreak one position too early: a span overlapping by one is passed over.
SweepBreakEarly(start_j, end_i) == start_j + 1 >= end_i

\* SweepBreak with the comparison off by one: touching spans go on to be reported.
SweepBreakLate(start_j, end_i) == start_j > end_i

\* `if start_j >= end_i { break; }`
SweepBreak(start_j, end_i) == start_j >= end_i

\* `if idx_i < idx_j { (idx_i, idx_j) } else { (idx_j, idx_i) }`, 0-based.
OrderedPair(a, b) == IF a < b THEN <<a - 1, b - 1>> ELSE <<b - 1, a - 1>>

\* The inner `for j in (i + 1)..indices.len()` of check_overlaps.
RECURSIVE OverlapInner(_, _, _, _, _, _)
OverlapInner(sp, allow, idx, i, j, acc) ==
    IF j > Len(idx) THEN acc
    ELSE LET si == sp[idx[i]]
             sj == sp[idx[j]]
         IN  IF SweepBreak(sj[1], si[2]) THEN acc
             ELSE IF allow /\ si[1] = sj[1] /\ si[2] = sj[2]
                  THEN OverlapInner(sp, allow, idx, i, j + 1, acc)
                  ELSE OverlapInner(sp, allow, idx, i, j + 1,
                                    Append(acc, OrderedPair(idx[i], idx[j])))

\* The outer `for i in 0..indices.len()` of check_overlaps.
RECURSIVE OverlapOuter(_, _, _, _, _)
OverlapOuter(sp, allow, idx, i, acc) ==
    IF i > Len(idx) THEN acc
    ELSE OverlapOuter(sp, allow, idx, i + 1,
                      OverlapInner(sp, allow, idx, i, i + 1, acc))

check_overlaps(sp, allow) ==
    IF Len(sp) < 2 THEN <<>>
    ELSE OverlapOuter(sp, allow, SortedIndices(sp), 1, <<>>)

\* LaterWins with the confidences the wrong way round.
LaterWinsOnLower(si, sj) ==
    \/ sj[4] < si[4]
    \/ sj[4] = si[4] /\ (sj[2] - sj[1]) > (si[2] - si[1])

\* LaterWins with `>=` for the lengths: a full tie goes to the later span.
LaterWinsOnTie(si, sj) ==
    \/ sj[4] > si[4]
    \/ sj[4] = si[4] /\ (sj[2] - sj[1]) >= (si[2] - si[1])

\* `conf_j > conf_i || (conf_j == conf_i && (end_j - start_j) > (end_i - start_i))`
LaterWins(si, sj) ==
    \/ sj[4] > si[4]
    \/ sj[4] = si[4] /\ (sj[2] - sj[1]) > (si[2] - si[1])

\* The inner `for j in (i + 1)..indices.len()` of deduplicate_spans; keep is
\* the flag vector, indexed like sp.
RECURSIVE DedupInner(_, _, _, _, _)
DedupInner(sp, idx, i, j, keep) ==
    IF j > Len(idx) THEN keep
    ELSE LET si == sp[idx[i]]
             sj == sp[idx[j]]
         IN  IF SweepBreak(sj[1], si[2]) THEN keep
             ELSE IF ~keep[idx[j]] THEN DedupInner(sp, idx, i, j + 1, keep)
             ELSE IF LaterWins(si, sj)
                  THEN [keep EXCEPT ![idx[i]] = FALSE]
                  ELSE DedupInner(sp, idx, i, j + 1,
                                  [keep EXCEPT ![idx[j]] = FALSE])

\* The outer `for i in 0..indices.len()` of deduplicate_spans.
RECURSIVE DedupOuter(_, _, _, _)
DedupOuter(sp, idx, i, keep) ==
    IF i > Len(idx) THEN keep
    ELSE IF ~keep[idx[i]] THEN DedupOuter(sp, idx, i + 1, keep)
    ELSE DedupOuter(sp, idx, i + 1, DedupInner(sp, idx, i, i + 1, keep))

\* The kept indices from the highest down.
RECURSIVE KeptIndicesDescending(_, _)
KeptIndicesDescending(keep, n) ==
    IF n = 0 THEN <<>>
    ELSE IF keep[n] THEN <<n - 1>> \o KeptIndicesDescending(keep, n - 1)
    ELSE KeptIndicesDescending(keep, n - 1)

\* `(0..spans.len()).filter(|&i| keep[i]).collect()`, 0-based indices.
RECURSIVE KeptIndices(_, _)
KeptIndices(keep, n) ==
    IF n = 0 THEN <<>>
    ELSE IF keep[n] THEN Append(KeptIndices(keep, n - 1), n - 1)
    ELSE KeptIndices(keep, n - 1)

deduplicate_spans(sp) ==
    IF sp = <<>> THEN <<>>
    ELSE IF Len(sp) = 1 THEN <<0>>
    ELSE KeptIndices(DedupOuter(sp, SortedIndices(sp), 1,
                                [k \in 1..Len(sp) |-> TRUE]),
                     Len(sp))

-----------------------------------------------------------------------------
(* scoring.rs.  An entity map is a function from its keys to counts.  The  *)
(* f64 values are fixed-point integers: a confidence is in hundredths, a   *)
(* multiplier in tenths, 1 + ln(count) in thousandths, and so a base score *)
(* is in units of 10^-5 and a content or final score in units of 10^-6.    *)
(* The order in which the f64 sum runs over the map is not modelled.       *)

WEIGHT_SCALE == 4

DEFAULT_WEIGHT == 5

TIER_CRITICAL == 80

TIER_HIGH == 55

TIER_MEDIUM == 31

TIER_LOW == 11

ENTITY_WEIGHTS ==
    {<<"SSN", 10>>, <<"PASSPORT", 10>>, <<"CREDIT_CARD", 10>>,
     <<"PASSWORD", 10>>, <<"API_KEY", 10>>, <<"PRIVATE_KEY", 10>>,
     <<"AWS_ACCESS_KEY", 10>>, <<"AWS_SECRET_KEY", 10>>,
     <<"DATABASE_URL", 10>>, <<"GITHUB_TOKEN", 10>>, <<"GITLAB_TOKEN", 10>>,
     <<"SLACK_TOKEN", 10>>, <<"STRIPE_KEY", 10>>,
     <<"CRYPTO_SEED_PHRASE", 10>>, <<"MRN", 9>>, <<"DIAGNOSIS", 9>>,
     <<"HEALTH_PLAN_ID", 9>>, <<"JWT", 9>>, <<"DRIVER_LICENSE", 8>>,
     <<"NPI", 8>>, <<"DEA", 8>>, <<"TAX_ID", 8>>, <<"MILITARY_ID", 8>>,
     <<"BITCOIN_ADDRESS", 7>>, <<"ETHEREUM_ADDRESS", 7>>, <<"IBAN", 7>>,
     <<"SWIFT_BIC", 7>>, <<"PHONE", 6>>, <<"EMAIL", 6>>,
     <<"SENDGRID_KEY", 6>>, <<"TWILIO_KEY", 6>>, <<"NAME", 5>>,
     <<"ADDRESS", 5>>, <<"IP_ADDRESS", 5>>, <<"MAC_ADDRESS", 5>>,
     <<"VIN", 5>>, <<"CUSIP", 5>>, <<"ISIN", 5>>, <<"LEI", 5>>,
     <<"DATE_DOB", 5>>, <<"AGE", 4>>, <<"CLASSIFICATION_LEVEL", 4>>,
     <<"DOD_CONTRACT", 4>>, <<"GSA_CONTRACT", 4>>, <<"CAGE_CODE", 4>>,
     <<"UEI", 4>>, <<"DATE", 3>>, <<"ZIP", 3>>, <<"CITY", 2>>,
     <<"STATE", 2>>, <<"COUNTRY", 2>>, <<"TRACKING_NUMBER", 2>>,
     <<"FACILITY", 1>>, <<"ORGANIZATION", 1>>}

ENTITY_CATEGORIES ==
    {<<"SSN", "direct_identifier">>, <<"PASSPORT", "direct_identifier">>,
     <<"DRIVER_LICENSE", "direct_identifier">>,
     <<"MILITARY_ID", "direct_identifier">>,
     <<"TAX_ID", "direct_identifier">>, <<"MRN", "direct_identifier">>,
     <<"STATE_ID", "direct_identifier">>, <<"DIAGNOSIS", "health_info">>,
     <<"MEDICATION", "health_info">>, <<"HEALTH_PLAN_ID", "health_info">>,
     <<"NPI", "health_info">>, <<"DEA", "health_info">>,
     <<"LAB_TEST", "health_info">>, <<"PROCEDURE", "health_info">>,
     <<"CREDIT_CARD", "financial">>, <<"IBAN", "financial">>,
     <<"SWIFT_BIC", "financial">>, <<"ACCOUNT_NUMBER", "financial">>,
     <<"CUSIP", "financial">>, <<"ISIN", "financial">>,
     <<"BITCOIN_ADDRESS", "financial">>, <<"ETHEREUM_ADDRESS", "financial">>,
     <<"CRYPTO_SEED_PHRASE", "financial">>, <<"EMAIL", "contact">>,
     <<"PHONE", "contact">>, <<"ADDRESS", "contact">>, <<"ZIP", "contact">>,
     <<"FAX", "contact">>, <<"PASSWORD", "credential">>,
     <<"API_KEY", "credential">>, <<"PRIVATE_KEY", "credential">>,
     <<"JWT", "credential">>, <<"AWS_ACCESS_KEY", "credential">>,
     <<"AWS_SECRET_KEY", "credential">>, <<"GITHUB_TOKEN", "credential">>,
     <<"GITLAB_TOKEN", "credential">>, <<"SLACK_TOKEN", "credential">>,
     <<"STRIPE_KEY", "credential">>, <<"DATABASE_URL", "credential">>,
     <<"NAME", "quasi_identifier">>, <<"DATE_DOB", "quasi_identifier">>,
     <<"AGE", "quasi_identifier">>, <<"DATE", "quasi_identifier">>,
     <<"CLASSIFICATION_LEVEL", "classification_marking">>,
     <<"CLASSIFICATION_MARKING", "classification_marking">>,
     <<"SCI_MARKING", "classification_marking">>,
     <<"DISSEMINATION_CONTROL", "classification_marking">>}

ENTITY_ALIASES ==
    {<<"US_SSN", "SSN">>, <<"SOCIAL_SECURITY", "SSN">>,
     <<"SOCIALSECURITYNUMBER", "SSN">>, <<"PER", "NAME">>,
     <<"PERSON", "NAME">>, <<"PATIENT", "NAME_PATIENT">>,
     <<"DOCTOR", "NAME_PROVIDER">>, <<"PHYSICIAN", "NAME_PROVIDER">>,
     <<"HCW", "NAME_PROVIDER">>, <<"DOB", "DATE_DOB">>,
     <<"BIRTHDAY", "DATE_DOB">>, <<"DATEOFBIRTH", "DATE_DOB">>,
     <<"DATE_OF_BIRTH", "DATE_DOB">>, <<"BIRTH_DATE", "DATE_DOB">>,
     <<"BIRTHDATE", "DATE_DOB">>, <<"CC", "CREDIT_CARD">>,
     <<"CREDITCARD", "CREDIT_CARD">>, <<"CREDITCARDNUMBER", "CREDIT_CARD">>,
     <<"CREDIT_CARD_NUMBER", "CREDIT_CARD">>, <<"TELEPHONE", "PHONE">>,
     <<"TEL", "PHONE">>, <<"MOBILE", "PHONE">>, <<"CELL", "PHONE">>,
     <<"PHONENUMBER", "PHONE">>, <<"PHONE_NUMBER", "PHONE">>,
     <<"US_PHONE_NUMBER", "PHONE">>, <<"EMAILADDRESS", "EMAIL">>,
     <<"EMAIL_ADDRESS", "EMAIL">>, <<"STREET_ADDRESS", "ADDRESS">>,
     <<"STREET", "ADDRESS">>, <<"IP", "IP_ADDRESS">>,
     <<"IPADDRESS", "IP_ADDRESS">>, <<"IPV4", "IP_ADDRESS">>,
     <<"IPV6", "IP_ADDRESS">>, <<"MEDICAL_RECORD", "MRN">>,
     <<"MEDICALRECORD", "MRN">>, <<"LICENSE", "DRIVER_LICENSE">>,
     <<"US_DRIVER_LICENSE", "DRIVER_LICENSE">>,
     <<"DRIVERSLICENSE", "DRIVER_LICENSE">>, <<"US_PASSPORT", "PASSPORT">>,
     <<"PASSPORT_NUMBER", "PASSPORT">>, <<"ZIPCODE", "ZIP">>,
     <<"ZIP_CODE", "ZIP">>, <<"POSTCODE", "ZIP">>, <<"LOCATION_ZIP", "ZIP">>}

\* (required_categories, multiplier in tenths, rule_name), in table order.
CO_OCCURRENCE_RULES ==
    <<  <<{"direct_identifier", "health_info"}, 20, "hipaa_phi">>,
        <<{"direct_identifier", "financial"}, 18, "identity_theft">>,
        <<{"credential"}, 15, "credential_exposure">>,
        <<{"quasi_identifier", "health_info"}, 15, "phi_without_id">>,
        <<{"contact", "health_info"}, 14, "phi_with_contact">>,
        <<{"direct_identifier", "quasi_identifier", "financial"}, 22, "full_identity">>,
        <<{"classification_marking"}, 25, "classified_data">>  >>

\* The table with the multipliers of INTERNAL and ORG_WIDE exchanged.
ExposureMultipliersSwapped ==
    {<<"PRIVATE", 10>>, <<"INTERNAL", 18>>, <<"ORG_WIDE", 12>>, <<"PUBLIC", 25>>}

\* Multipliers in tenths.
EXPOSURE_MULTIPLIERS ==
    {<<"PRIVATE", 10>>, <<"INTERNAL", 12>>, <<"ORG_WIDE", 18>>, <<"PUBLIC", 25>>}

\* HashMap::contains_key and HashMap::get on a table of (key, value) pairs.
ContainsKey(table, key) == \E e \in table : e[1] = key

Get(table, key) == (CHOOSE e \in table : e[1] = key)[2]

\* str::to_uppercase, for the strings of the model that are not upper case.
LowerCaseStrings ==
    {<<"ssn", "SSN">>, <<"us_ssn", "US_SSN">>, <<"email", "EMAIL">>,
     <<"public", "PUBLIC">>, <<"internal", "INTERNAL">>, <<"bogus", "BOGUS">>}

to_uppercase(str) ==
    IF ContainsKey(LowerCaseStrings, str) THEN Get(LowerCaseStrings, str) ELSE str

\* 1000 * ln(count), rounded, for count = 1, 2, ...
LnMilli == <<0, 693, 1099, 1386, 1609, 1792, 1946, 2079>>

normalize_entity(entity_type) ==
    LET upper == to_uppercase(entity_type)
    IN  IF ContainsKey(ENTITY_ALIASES, upper) THEN Get(ENTITY_ALIASES, upper) ELSE upper

get_weight(entity_type) ==
    LET normalized == normalize_entity(entity_type)
    IN  IF ContainsKey(ENTITY_WEIGHTS, normalized)
        THEN Get(ENTITY_WEIGHTS, normalized) ELSE DEFAULT_WEIGHT

get_category(entity_type) ==
    LET normalized == normalize_entity(entity_type)
    IN  IF ContainsKey(ENTITY_CATEGORIES, normalized)
        THEN Get(ENTITY_CATEGORIES, normalized) ELSE "unknown"

\* The HashSet of the categories present.
get_categories(entities) ==
    {get_category(k) : k \in DOMAIN entities} \ {"unknown"}

\* A rule fires when any of its categories is present.
RuleFiresOnAny(rule, categories) == rule[1] \cap categories # {}

\* `required_cats.iter().all(|c| categories.contains(*c))`
RuleFires(rule, categories) == rule[1] \subseteq categories

\* The loop over CO_OCCURRENCE_RULES from rule k on, with the maximum and
\* the rule names so far.
RECURSIVE CoOccurrenceLoop(_, _, _, _)
CoOccurrenceLoop(categories, k, max_mult, triggered_rules) ==
    IF k > Len(CO_OCCURRENCE_RULES) THEN <<max_mult, triggered_rules>>
    ELSE LET rule == CO_OCCURRENCE_RULES[k]
         IN  IF ~RuleFires(rule, categories)
             THEN CoOccurrenceLoop(categories, k + 1, max_mult, triggered_rules)
             ELSE IF rule[2] > max_mult
             THEN CoOccurrenceLoop(categories, k + 1, rule[2], <<rule[3]>>)
             ELSE IF rule[2] = max_mult
             THEN CoOccurrenceLoop(categories, k + 1, max_mult,
                                   Append(triggered_rules, rule[3]))
             ELSE CoOccurrenceLoop(categories, k + 1, max_mult, triggered_rules)

get_co_occurrence_multiplier(entities) ==
    IF DOMAIN entities = {} THEN <<10, <<>>>>
    ELSE CoOccurrenceLoop(get_categories(entities), 1, 10, <<>>)

\* The argument is a final score in units of 10^-6.
score_to_tier(score) ==
    IF score >= TIER_CRITICAL * 1000000 THEN "CRITICAL"
    ELSE IF score >= TIER_HIGH * 1000000 THEN "HIGH"
    ELSE IF score >= TIER_MEDIUM * 1000000 THEN "MEDIUM"
    ELSE IF score >= TIER_LOW * 1000000 THEN "LOW"
    ELSE "MINIMAL"

\* weight * aggregation * confidence of one entry, in units of 10^-5.
EntityScore(entity_type, count, confidence) ==
    LET weight == get_weight(entity_type) * WEIGHT_SCALE
        aggregation == 1000 + LnMilli[IF count > 1 THEN count ELSE 1]
    IN  weight * aggregation * confidence

\* The sum of the entity scores over the keys.
RECURSIVE BaseScore(_, _, _)
BaseScore(entities, keys, confidence) ==
    IF keys = {} THEN 0
    ELSE LET k == CHOOSE x \in keys : TRUE
         IN  EntityScore(k, entities[k], confidence)
                + BaseScore(entities, keys \ {k}, confidence)

\* x times a multiplier in tenths, rounded down to the unit of x.
TimesTenths(x, tenths) == (x \div 10) * tenths + ((x % 10) * tenths) \div 10

\* A score, in units of 10^-6, without its cap.
Uncapped(x) == x

\* `.min(100.0)` on a score in units of 10^-6.
Capped(x) == Min(x, 100000000)

\* The empty result, but with the multiplier of the exposure.
EmptyResultExposed(exposure) ==
    [score |-> 0, tier |-> "MINIMAL", content_score |-> 0,
     exposure_multiplier |->
        IF ContainsKey(EXPOSURE_MULTIPLIERS, to_uppercase(exposure))
        THEN Get(EXPOSURE_MULTIPLIERS, to_uppercase(exposure)) ELSE 10,
     co_occurrence_multiplier |-> 10,
     co_occurrence_rules |-> <<>>, categories |-> {},
     exposure |-> to_uppercase(exposure)]

\* What score_internal returns for the empty entity map.
EmptyResult(exposure) ==
    [score |-> 0, tier |-> "MINIMAL", content_score |-> 0,
     exposure_multiplier |-> 10, co_occurrence_multiplier |-> 10,
     co_occurrence_rules |-> <<>>, categories |-> {},
     exposure |-> to_uppercase(exposure)]

\* score_internal: categories is the HashSet, content_score is in tenths.
score_internal(entities, exposure, confidence) ==
    IF DOMAIN entities = {}
    THEN EmptyResult(exposure)
    ELSE LET base_score == BaseScore(entities, DOMAIN entities, confidence)
             co == get_co_occurrence_multiplier(entities)
             content_score == Capped(base_score * co[1])
             exp_upper == to_uppercase(exposure)
             exp_mult == IF ContainsKey(EXPOSURE_MULTIPLIERS, exp_upper)
                         THEN Get(EXPOSURE_MULTIPLIERS, exp_upper) ELSE 10
             final_score == Capped(TimesTenths(content_score, exp_mult))
         IN  [score |-> (final_score + 500000) \div 1000000,
              tier |-> score_to_tier(final_score),
              content_score |-> (content_score + 50000) \div 100000,
              exposure_multiplier |-> exp_mult,
              co_occurrence_multiplier |-> co[1],
              co_occurrence_rules |-> co[2],
              categories |-> get_categories(entities),
              exposure |-> exp_upper]

\* The sequences that list every element of set S once.
Orderings(S) ==
    {q \in [1..Cardinality(S) -> S] : \A x \in S : \E k \in DOMAIN q : q[k] = x}

\* From<ScoringResultInternal>: categories becomes the Vec that iterating
\* the HashSet gives.  The iteration order of a HashSet is that of its
\* hasher, seeded anew for every set: any order of the elements can come.
RustScoringResults(r) ==
    {[r EXCEPT !.categories = q] : q \in Orderings(r.categories)}

\* The values a call score_entities(entities, exposure, confidence) can return.
score_entities(entities, exposure, confidence) ==
    RustScoringResults(score_internal(entities, exposure, confidence))

-----------------------------------------------------------------------------
(* checksum.rs: checksum_iban.  A string is a sequence of characters, and  *)
(* a String's len() and slice indices count UTF-8 bytes.  The result       *)
(* (bool, f64) has its confidence in hundredths.                           *)

UpperLetters ==
    <<"A", "B", "C", "D", "E", "F", "G", "H", "I", "J", "K", "L", "M",
      "N", "O", "P", "Q", "R", "S", "T", "U", "V", "W", "X", "Y", "Z">>

LowerLetters ==
    <<"a", "b", "c", "d", "e", "f", "g", "h", "i", "j", "k", "l", "m",
      "n", "o", "p", "q", "r", "s", "t", "u", "v", "w", "x", "y", "z">>

\* The characters U+00E9 and U+00C9 (e acute, small and capital): two
\* bytes each in UTF-8.
EAcute == "U+00E9"

CapitalEAcute == "U+00C9"

\* char::len_utf8
len_utf8(c) == IF c \in {EAcute, CapitalEAcute} THEN 2 ELSE 1

\* char::to_uppercase
UpperChar(c) ==
    IF c \in Range(LowerLetters) THEN UpperLetters[IndexIn(LowerLetters, c)]
    ELSE IF c = EAcute THEN CapitalEAcute
    ELSE c

\* String::len: the number of bytes.
RECURSIVE ByteLen(_)
ByteLen(str) == IF str = <<>> THEN 0 ELSE len_utf8(Head(str)) + ByteLen(Tail(str))

\* str::is_char_boundary
is_char_boundary(str, index) ==
    \E k \in 0..Len(str) : ByteLen(SubSeq(str, 1, k)) = index

\* The number of characters before byte index `index`, a char boundary.
CharsBefore(str, index) ==
    CHOOSE k \in 0..Len(str) : ByteLen(SubSeq(str, 1, k)) = index

\* iban.to_uppercase().replace(' ', "")
IbanCleaned(iban) ==
    SelectSeq([k \in 1..Len(iban) |-> UpperChar(iban[k])], LAMBDA c : c # " ")

\* The loop that builds `numeric`: the digits of the rearranged string, as
\* numbers, or <<-1>> at the first character that is no ASCII digit or letter.
RECURSIVE IbanNumeric(_)
IbanNumeric(str) ==
    IF str = <<>> THEN <<>>
    ELSE LET c == Head(str)
             rest == IbanNumeric(Tail(str))
         IN  IF rest = <<-1>> THEN rest
             ELSE IF c \in Range(AsciiDigits)
                  THEN <<IndexIn(AsciiDigits, c) - 1>> \o rest
             ELSE IF c \in Range(UpperLetters)
                  THEN LET n == IndexIn(UpperLetters, c) - 1 + 10
                       IN  <<n \div 10, n % 10>> \o rest
             ELSE IF c \in Range(LowerLetters)
                  THEN LET n == IndexIn(LowerLetters, c) - 1 + 32 + 10
                       IN  <<n \div 10, n % 10>> \o rest
             ELSE <<-1>>

\* remainder = (remainder * 10 + digit) % 97 over the digits from k on.
RECURSIVE Mod97(_, _, _)
Mod97(numeric, k, remainder) ==
    IF k > Len(numeric) THEN remainder
    ELSE Mod97(numeric, k + 1, (remainder * 10 + numeric[k]) % 97)

\* checksum_iban panics: &cleaned[4..] with byte 4 inside a character.
checksum_iban_panics(iban) ==
    LET cleaned == IbanCleaned(iban)
    IN  /\ ByteLen(cleaned) >= 15
        /\ ByteLen(cleaned) <= 34
        /\ ~is_char_boundary(cleaned, 4)

\* checksum_iban where it returns.
checksum_iban(iban) ==
    LET cleaned == IbanCleaned(iban)
    IN  IF ByteLen(cleaned) < 15 \/ ByteLen(cleaned) > 34 THEN <<FALSE, 0>>
        ELSE LET n == CharsBefore(cleaned, 4)
                 rearranged == SubSeq(cleaned, n + 1, Len(cleaned))
                                  \o SubSeq(cleaned, 1, n)
                 numeric == IbanNumeric(rearranged)
             IN  IF numeric = <<-1>> THEN <<FALSE, 0>>
                 ELSE IF Mod97(numeric, 1, 0) # 1 THEN <<FALSE, 0>>
                 ELSE <<TRUE, 99>>

-----------------------------------------------------------------------------
(* checksum.rs: checksum_ssn and checksum_credit_card. *)

\* char::is_ascii_digit
is_ascii_digit(c) == c \in Range(AsciiDigits)

\* char::to_digit(10) of an ASCII digit
to_digit(c) == IndexIn(AsciiDigits, c) - 1

\* extract_digits: the ASCII digits of the text, in order.
extract_digits(text) == SelectSeq(text, is_ascii_digit)

\* str::starts_with
starts_with(str, prefix) ==
    Len(str) >= Len(prefix) /\ SubSeq(str, 1, Len(prefix)) = prefix

\* str::parse::<u32> of a string of at most four ASCII digits.
RECURSIVE parse(_)
parse(digits) ==
    IF digits = <<>> THEN 0
    ELSE parse(SubSeq(digits, 1, Len(digits) - 1)) * 10 + to_digit(digits[Len(digits)])

\* The loop of luhn_check over digits.iter().rev(), from position k down.
RECURSIVE LuhnLoop(_, _, _, _)
LuhnLoop(digits, k, double, sum) ==
    IF k = 0 THEN sum
    ELSE LET doubled == IF double THEN digits[k] * 2 ELSE digits[k]
             d == IF double /\ doubled > 9 THEN doubled - 9 ELSE doubled
         IN  LuhnLoop(digits, k - 1, ~double, sum + d)

\* luhn_check on the digits as numbers.
luhn_check(digits) ==
    IF Len(digits) < 2 THEN FALSE
    ELSE LuhnLoop(digits, Len(digits), FALSE, 0) % 10 = 0

\* luhn_check_str
luhn_check_str(text) ==
    LET digits == extract_digits(text)
    IN  luhn_check([k \in 1..Len(digits) |-> to_digit(digits[k])])

\* Characters with char::is_whitespace, among those of the model.
Tab == "\t"

Newline == "\n"

WhiteSpace == {" ", Tab, Newline}

\* str::trim_start and str::trim_end
RECURSIVE trim_start(_)
trim_start(str) ==
    IF str # <<>> /\ Head(str) \in WhiteSpace THEN trim_start(Tail(str)) ELSE str

RECURSIVE trim_end(_)
trim_end(str) ==
    IF str # <<>> /\ str[Len(str)] \in WhiteSpace
    THEN trim_end(SubSeq(str, 1, Len(str) - 1))
    ELSE str

\* A trim that leaves the whitespace at the end.
TrimStartOnly(str) == trim_start(str)

\* str::trim
trim(str) == trim_end(trim_start(str))

\* ASCII_DIGITS_SEPS.is_match: ^[0-9\- ]+$ over the whole string.
ASCII_DIGITS_SEPS(str) ==
    /\ str # <<>>
    /\ \A k \in 1..Len(str) : is_ascii_digit(str[k]) \/ str[k] \in {"-", " "}

\* checksum_ssn
checksum_ssn(ssn) ==
    LET trimmed == trim(ssn)
        digits == extract_digits(trimmed)
    IN  IF ~ASCII_DIGITS_SEPS(trimmed) THEN <<FALSE, 0>>
        ELSE IF Len(digits) # 9 THEN <<FALSE, 0>>
        ELSE LET area == SubSeq(digits, 1, 3)
                 group == SubSeq(digits, 4, 5)
                 serial == SubSeq(digits, 6, 9)
                 c1 == IF area = <<"0", "0", "0">> \/ area = <<"6", "6", "6">>
                          \/ starts_with(area, <<"9">>)
                       THEN 85 ELSE 99
                 c2 == IF group = <<"0", "0">> THEN Min(c1, 80) ELSE c1
                 c3 == IF serial = <<"0", "0", "0", "0">> THEN Min(c2, 80) ELSE c2
             IN  <<TRUE, c3>>

\* valid_prefix without the Mastercard range 2221-2720.
ValidPrefixOldMastercard(digits) ==
    LET prefix2 == parse(SubSeq(digits, 1, 2))
        prefix3 == IF Len(digits) >= 3 THEN parse(SubSeq(digits, 1, 3)) ELSE 0
    IN  \/ starts_with(digits, <<"4">>)
        \/ prefix2 \in 51..55
        \/ starts_with(digits, <<"3", "4">>) \/ starts_with(digits, <<"3", "7">>)
        \/ starts_with(digits, <<"6", "0", "1", "1">>)
        \/ starts_with(digits, <<"6", "5">>)
        \/ prefix3 \in 644..649
        \/ starts_with(digits, <<"3", "5">>)
        \/ starts_with(digits, <<"3", "6">>)
        \/ prefix3 \in 300..305
        \/ starts_with(digits, <<"3", "8">>) \/ starts_with(digits, <<"3", "9">>)

\* valid_prefix of checksum_credit_card, on at least 13 digits.
ValidPrefix(digits) ==
    LET prefix2 == parse(SubSeq(digits, 1, 2))
        prefix3 == IF Len(digits) >= 3 THEN parse(SubSeq(digits, 1, 3)) ELSE 0
        prefix4 == IF Len(digits) >= 4 THEN parse(SubSeq(digits, 1, 4)) ELSE 0
    IN  \/ starts_with(digits, <<"4">>)
        \/ prefix2 \in 51..55
        \/ prefix4 \in 2221..2720
        \/ starts_with(digits, <<"3", "4">>) \/ starts_with(digits, <<"3", "7">>)
        \/ starts_with(digits, <<"6", "0", "1", "1">>)
        \/ starts_with(digits, <<"6", "5">>)
        \/ prefix3 \in 644..649
        \/ starts_with(digits, <<"3", "5">>)
        \/ starts_with(digits, <<"3", "6">>)
        \/ prefix3 \in 300..305
        \/ starts_with(digits, <<"3", "8">>) \/ starts_with(digits, <<"3", "9">>)

\* checksum_credit_card
checksum_credit_card(cc) ==
    LET digits == extract_digits(cc)
    IN  IF Len(digits) < 13 \/ Len(digits) > 19 THEN <<FALSE, 0>>
        ELSE IF ~ValidPrefix(digits) THEN <<FALSE, 0>>
        ELSE IF ~luhn_check_str(digits) THEN <<TRUE, 87>>
        ELSE <<TRUE, 99>>

\* checksum_npi
checksum_npi(npi) ==
    LET digits == extract_digits(npi)
    IN  IF Len(digits) # 10 THEN <<FALSE, 0>>
        ELSE IF digits[1] # "1" /\ digits[1] # "2" THEN <<FALSE, 0>>
        ELSE IF ~luhn_check_str(<<"8", "0", "8", "4", "0">> \o digits) THEN <<FALSE, 0>>
        ELSE <<TRUE, 99>>

\* The names of the model: of checksums it holds, and one that is no
\* checksum's.
ChecksumNames == {"ssn", "credit_card", "iban", "no_such_checksum"}

\* The match with a last arm that lets the value pass.
ChecksumByNamePassThrough(name, v) ==
    CASE name = "ssn" -> checksum_ssn(v)
      [] name = "credit_card" -> checksum_credit_card(v)
      [] name = "iban" -> checksum_iban(v)
      [] OTHER -> <<TRUE, 0>>

\* The match of checksum_batch over validator_name, for the checksums of
\* the model; `_ => (false, 0.0)`.
ChecksumByName(name, v) ==
    CASE name = "ssn" -> checksum_ssn(v)
      [] name = "credit_card" -> checksum_credit_card(v)
      [] name = "iban" -> checksum_iban(v)
      [] OTHER -> <<FALSE, 0>>

ChecksumByNamePanics(name, v) ==
    name = "iban" /\ checksum_iban_panics(v)

-----------------------------------------------------------------------------
(* Every specification below runs one component; the variables of the      *)
(* other components rest in these states.                                  *)

SpansIdle ==
    /\ spans = <<>>
    /\ allow_identical = TRUE
    /\ spanPc = "idle"
    /\ spanOut = <<>>

RiskIdle ==
    /\ COMPILED_PATTERNS = <<>>
    /\ matchers = <<>>
    /\ ctorPatterns = <<>>
    /\ newPanic = FALSE
    /\ callSelf = 0
    /\ callText = <<>>
    /\ mightOut = <<>>
    /\ findOut = <<>>

LibIdle ==
    /\ libPatterns = <<>>
    /\ libMatcher = <<>>
    /\ libText = <<>>
    /\ libOut = <<>>

OnceIdle ==
    /\ oncePatterns = <<>>
    /\ onceRunning = FALSE
    /\ threads = <<>>
    /\ compileCalls = 0
    /\ installs = 0

ScoreIdle ==
    /\ scoreEntities = <<>>
    /\ scoreExposure = ""
    /\ scoreConfidence = 0
    /\ scoreEntities2 = <<>>
    /\ scorePc = "idle"
    /\ scoreOut = <<>>
    /\ scoreOut2 = <<>>
    /\ coOut = <<>>

ChecksumIdle ==
    /\ checksumName = ""
    /\ checksumInput = <<>>
    /\ checksumPc = "idle"
    /\ checksumOut = <<>>

PureIdle == ScoreIdle /\ ChecksumIdle

BatchIdle ==
    /\ batchOp = "none"
    /\ validator_name = ""
    /\ batchInput = <<>>
    /\ batchSlots = <<>>
    /\ batchPc = "idle"
    /\ batchOut = <<>>
    /\ singleOut = <<>>

-----------------------------------------------------------------------------
(* matcher.rs as a state machine: one process, its global catalog, the     *)
(* matchers it constructs one after the other and the calls it makes.      *)

\* The patterns the process draws its pattern lists from.
OpenriskCatalog ==
    {<<"\\d+", "NUM", 90, 0>>, <<"(", "BAD", 50, 0>>, <<"-(\\d+)", "SSN", 95, 1>>}

OpenriskPatternLists == SeqsUpTo(OpenriskCatalog, MaxPatterns)

UsizeModulus == 2 ^ UsizeBits

\* a - b in usize arithmetic without overflow checks (a release build).
WrappingSub(a, b) == (a - b + UsizeModulus) % UsizeModulus

\* COMPILED_PATTERNS.get_or_init(|| compile_patterns(&patterns)), called by
\* one thread: the closure runs only on an empty cell.
GetOrInit(cell, patterns) ==
    IF cell = <<>> THEN compile_patterns(patterns) ELSE cell[1]

\* PatternMatcher::new(patterns).  `patterns.len() - compiled.
\* individual_regexes.len()` overflows when the catalog holds more patterns
\* than the list: a build with overflow checks panics there, a build
\* without them wraps.
New(patterns) ==
    /\ Len(matchers) < MaxMatchers
    /\ LET compiled == GetOrInit(COMPILED_PATTERNS, patterns)
           count == Len(compiled.individual_regexes)
       IN  /\ COMPILED_PATTERNS' = <<compiled>>
           /\ \/ /\ Len(patterns) >= count
                 /\ matchers' = Append(matchers,
                        [pattern_count |-> count,
                         failed_count |-> Len(patterns) - count])
                 /\ ctorPatterns' = Append(ctorPatterns, patterns)
                 /\ newPanic' = FALSE
              \/ /\ Len(patterns) < count
                 /\ matchers' = Append(matchers,
                        [pattern_count |-> count,
                         failed_count |-> WrappingSub(Len(patterns), count)])
                 /\ ctorPatterns' = Append(ctorPatterns, patterns)
                 /\ newPanic' = FALSE
              \/ /\ Len(patterns) < count
                 /\ newPanic' = TRUE
                 /\ UNCHANGED <<matchers, ctorPatterns>>
    /\ UNCHANGED <<callSelf, callText, mightOut, findOut, spanVars, libVars,
                   onceVars, batchVars,
                   pureVars>>

\* matchers[m].find_matches(text); the result of might_contain_patterns is
\* kept next to it while it is about the same text.
FindMatches(m, t) ==
    /\ m \in 1..Len(matchers)
    /\ callSelf' = m
    /\ callText' = t
    /\ findOut' = <<find_matches_impl(COMPILED_PATTERNS[1], t)>>
    /\ mightOut' = IF t = callText /\ m = callSelf THEN mightOut ELSE <<>>
    /\ UNCHANGED <<COMPILED_PATTERNS, matchers, ctorPatterns, newPanic,
                   spanVars, libVars, onceVars, batchVars,
                   pureVars>>

\* matchers[m].might_contain_patterns(text)
MightContainPatterns(m, t) ==
    /\ m \in 1..Len(matchers)
    /\ callSelf' = m
    /\ callText' = t
    /\ mightOut' = <<might_contain(COMPILED_PATTERNS[1], t)>>
    /\ findOut' = IF t = callText /\ m = callSelf THEN findOut ELSE <<>>
    /\ UNCHANGED <<COMPILED_PATTERNS, matchers, ctorPatterns, newPanic,
                   spanVars, libVars, onceVars, batchVars,
                   pureVars>>

InitOpenrisk == RiskIdle /\ SpansIdle /\ LibIdle /\ OnceIdle /\ BatchIdle /\ PureIdle

NextOpenrisk ==
    \/ \E patterns \in OpenriskPatternLists : New(patterns)
    \/ \E m \in 1..MaxMatchers, t \in Texts : FindMatches(m, t)
    \/ \E m \in 1..MaxMatchers, t \in Texts : MightContainPatterns(m, t)

SpecOpenrisk == InitOpenrisk /\ [][NextOpenrisk]_vars

\* Pattern lists with and without a capture group: a group that always
\* takes part, one that may not, one that may be empty or blank, and whole
\* matches.
CapturePatternLists ==
    {<< <<"-(\\d+)", "SSN", 95, 1>> >>,
     << <<"-(\\d)?", "OPT", 90, 1>>, <<"\\d(\\s*)", "PAD", 90, 1>> >>,
     << <<"\\s+", "WS", 50, 0>>, <<"-(\\d+)", "WHOLE", 95, 0>> >>}

NextCapture ==
    \/ \E patterns \in CapturePatternLists : New(patterns)
    \/ \E m \in 1..MaxMatchers, t \in Texts : FindMatches(m, t)

SpecCapture == InitOpenrisk /\ [][NextCapture]_vars

-----------------------------------------------------------------------------
(* PatternMatcher::new called by several threads at the same time, all     *)
(* with the same pattern list.  COMPILED_PATTERNS.get_or_init is a         *)
(* once_cell::sync::OnceCell: a thread that finds the cell empty and no    *)
(* initializer running runs the closure, a thread that finds an            *)
(* initializer running waits for it, and the value is published to the     *)
(* other threads in one step, when the closure has returned.  The closure  *)
(* builds the catalog in its own local vectors, one pattern per step.      *)

ThreadStart ==
    [pc |-> "start", path |-> "none", acc |-> EmptyCatalog, next |-> 1,
     compiled |-> <<>>]

\* get_or_init lets the calling thread run the closure.
OnceClaimableRacy(cell, running) == cell = <<>>

OnceClaimable(cell, running) == cell = <<>> /\ ~running

\* get_or_init on a cell that holds its value: the closure is not run.
GetFast(t) ==
    /\ threads[t].pc = "start"
    /\ COMPILED_PATTERNS # <<>>
    /\ threads' = [threads EXCEPT ![t].pc = "construct", ![t].path = "fast",
                                  ![t].compiled = COMPILED_PATTERNS]
    /\ UNCHANGED <<oncePatterns, onceRunning, compileCalls, installs,
                   riskVars, spanVars, libVars, batchVars,
                   pureVars>>

\* get_or_init on an empty cell: this thread becomes the initializer and
\* enters compile_patterns.
Claim(t) ==
    /\ threads[t].pc = "start"
    /\ OnceClaimable(COMPILED_PATTERNS, onceRunning)
    /\ onceRunning' = TRUE
    /\ compileCalls' = compileCalls + 1
    /\ threads' = [threads EXCEPT ![t].pc = "compile_patterns", ![t].path = "init"]
    /\ UNCHANGED <<oncePatterns, installs, riskVars, spanVars, libVars, batchVars,
                   pureVars>>

\* get_or_init while another thread initializes: this thread waits.
Block(t) ==
    /\ threads[t].pc = "start"
    /\ COMPILED_PATTERNS = <<>>
    /\ onceRunning
    /\ threads' = [threads EXCEPT ![t].pc = "blocked", ![t].path = "waited"]
    /\ UNCHANGED <<oncePatterns, onceRunning, compileCalls, installs,
                   riskVars, spanVars, libVars, batchVars,
                   pureVars>>

\* The initializer has finished: a waiting thread gets the cell's value.
Wake(t) ==
    /\ threads[t].pc = "blocked"
    /\ COMPILED_PATTERNS # <<>>
    /\ threads' = [threads EXCEPT ![t].pc = "construct",
                                  ![t].compiled = COMPILED_PATTERNS]
    /\ UNCHANGED <<oncePatterns, onceRunning, compileCalls, installs,
                   riskVars, spanVars, libVars, batchVars,
                   pureVars>>

\* One iteration of compile_patterns' loop in the initializing thread.
CompileStep(t) ==
    /\ threads[t].pc = "compile_patterns"
    /\ threads[t].next <= Len(oncePatterns)
    /\ threads' = [threads EXCEPT
                     ![t].acc = CompileOne(threads[t].acc, oncePatterns, threads[t].next),
                     ![t].next = threads[t].next + 1]
    /\ UNCHANGED <<oncePatterns, onceRunning, compileCalls, installs,
                   riskVars, spanVars, libVars, batchVars,
                   pureVars>>

\* compile_patterns returns, and get_or_init stores its value in the cell.
Install(t) ==
    /\ threads[t].pc = "compile_patterns"
    /\ threads[t].next > Len(oncePatterns)
    /\ COMPILED_PATTERNS' = <<FinishCatalog(threads[t].acc)>>
    /\ onceRunning' = FALSE
    /\ installs' = installs + 1
    /\ threads' = [threads EXCEPT ![t].pc = "construct",
                                  ![t].compiled = <<FinishCatalog(threads[t].acc)>>]
    /\ UNCHANGED <<oncePatterns, compileCalls, matchers, ctorPatterns, newPanic,
                   callSelf, callText, mightOut, findOut, spanVars, libVars, batchVars,
                   pureVars>>

\* The rest of PatternMatcher::new: the instance is put together from the
\* catalog get_or_init returned.
Construct(t) ==
    /\ threads[t].pc = "construct"
    /\ LET count == Len(threads[t].compiled[1].individual_regexes)
       IN  /\ Len(oncePatterns) >= count
           /\ matchers' = Append(matchers,
                  [pattern_count |-> count,
                   failed_count |-> Len(oncePatterns) - count])
    /\ ctorPatterns' = Append(ctorPatterns, oncePatterns)
    /\ threads' = [threads EXCEPT ![t].pc = "done"]
    /\ UNCHANGED <<oncePatterns, onceRunning, compileCalls, installs,
                   COMPILED_PATTERNS, newPanic, callSelf, callText, mightOut,
                   findOut, spanVars, libVars, batchVars,
                   pureVars>>

InitOnce ==
    /\ oncePatterns \in OpenriskPatternLists
    /\ onceRunning = FALSE
    /\ threads = [t \in 1..MaxThreads |-> ThreadStart]
    /\ compileCalls = 0
    /\ installs = 0
    /\ RiskIdle /\ SpansIdle /\ LibIdle /\ BatchIdle /\ PureIdle

NextOnce ==
    \E t \in 1..MaxThreads :
        \/ GetFast(t)
        \/ Claim(t)
        \/ Block(t)
        \/ Wake(t)
        \/ CompileStep(t)
        \/ Install(t)
        \/ Construct(t)

SpecOnce == InitOnce /\ [][NextOnce]_vars

-----------------------------------------------------------------------------
(* lib.rs as a state machine: a matcher is constructed, then scans texts.  *)

LibCatalog ==
    {<<"num", "\\d+", "luhn", 80>>, <<"ws", "\\s+", NoValidator, 50>>,
     <<"dash", "-*", "no_such_validator", 50>>, <<"bad", "(", NoValidator, 50>>,
     <<"card", "\\d+", "luhn", 90>>}

LibPatternLists == SeqsUpTo(LibCatalog, MaxPatterns)

\* PatternMatcher::new(patterns)
LibNew(patterns) ==
    /\ libPatterns' = patterns
    /\ libMatcher' = <<LibPatternMatcherNew(patterns)>>
    /\ libText' = <<>>
    /\ libOut' = <<>>
    /\ UNCHANGED <<spanVars, riskVars, onceVars, batchVars,
                   pureVars>>

\* find_matches(text) on the matcher constructed
LibFindMatches(t) ==
    /\ libMatcher # <<>>
    /\ libMatcher[1].ok
    /\ libText' = t
    /\ libOut' = <<lib_find_matches(libMatcher[1], t)>>
    /\ UNCHANGED <<libPatterns, libMatcher, spanVars, riskVars, onceVars, batchVars,
                   pureVars>>

InitOpenlabels == LibIdle /\ SpansIdle /\ RiskIdle /\ OnceIdle /\ BatchIdle /\ PureIdle

NextOpenlabels ==
    \/ \E patterns \in LibPatternLists : LibNew(patterns)
    \/ \E t \in Texts : LibFindMatches(t)

SpecOpenlabels == InitOpenlabels /\ [][NextOpenlabels]_vars

-----------------------------------------------------------------------------
(* The span functions as a state machine: a call's arguments, then its    *)
(* result.                                                                 *)

InitOverlaps ==
    /\ spans \in SeqsUpTo(Positions, MaxSpans)
    /\ allow_identical \in BOOLEAN
    /\ spanPc = "input"
    /\ spanOut = <<>>
    /\ RiskIdle /\ LibIdle /\ OnceIdle /\ BatchIdle /\ PureIdle

CheckOverlaps ==
    /\ spanPc = "input"
    /\ spanPc' = "check_overlaps"
    /\ spanOut' = check_overlaps(spans, allow_identical)
    /\ UNCHANGED <<spans, allow_identical, riskVars, libVars, onceVars, batchVars,
                   pureVars>>

NextOverlaps == CheckOverlaps

SpecOverlaps == InitOverlaps /\ [][NextOverlaps]_vars

InitDedup ==
    /\ spans \in SeqsUpTo(DedupSpans, MaxDedupSpans)
    /\ allow_identical = TRUE
    /\ spanPc = "input"
    /\ spanOut = <<>>
    /\ RiskIdle /\ LibIdle /\ OnceIdle /\ BatchIdle /\ PureIdle

DeduplicateSpans ==
    /\ spanPc = "input"
    /\ spanPc' = "deduplicate_spans"
    /\ spanOut' = deduplicate_spans(spans)
    /\ UNCHANGED <<spans, allow_identical, riskVars, libVars, onceVars, batchVars,
                   pureVars>>

NextDedup == DeduplicateSpans

SpecDedup == InitDedup /\ [][NextDedup]_vars

-----------------------------------------------------------------------------
(* The batch entry points.  Each is `items.par_iter().map(op).collect()`   *)
(* under py.allow_threads: rayon's workers run the items in any order,     *)
(* collect puts the results in the order of the items, and a panic of a    *)
(* worker is raised again in the thread that called the batch function.    *)

BatchOps ==
    {"matcher.rs find_matches_batch", "lib.rs find_matches_batch",
     "batch_overlap_check", "batch_deduplicate", "score_entities_batch",
     "checksum_batch"}

\* What running one item gives: a value, or a panic.
Returned(v) == [panic |-> FALSE, value |-> <<v>>]

Panicked == [panic |-> TRUE, value |-> <<>>]

\* The closure each entry point maps over its items, as the set of the
\* outcomes it can have for one item.
ItemOutcomes(op, item) ==
    CASE op = "matcher.rs find_matches_batch" ->
            {Returned(find_matches_impl(COMPILED_PATTERNS[1], item))}
      [] op = "lib.rs find_matches_batch" ->
            {Returned(lib_find_matches(libMatcher[1], item))}
      [] op = "batch_overlap_check" ->
            {Returned(check_overlaps(item, allow_identical))}
      [] op = "batch_deduplicate" ->
            {Returned(deduplicate_spans(item))}
      [] op = "score_entities_batch" ->
            {Returned(r) : r \in score_entities(item[1], item[2], item[3])}
      [] op = "checksum_batch" ->
            IF ChecksumByNamePanics(validator_name, item) THEN {Panicked}
            ELSE {Returned(ChecksumByName(validator_name, item))}

\* The patterns of the matchers that the batch calls are made on.
BatchPatterns ==
    << <<"\\d+", "NUM", 90, 0>>, <<"(", "BAD", 50, 0>>, <<"-(\\d+)", "SSN", 95, 1>> >>

LibBatchPatterns ==
    << <<"num", "\\d+", "luhn", 80>>, <<"ws", "\\s+", NoValidator, 50>>,
       <<"dash", "-*", "no_such_validator", 50>> >>

\* The items the batches are made of.
BatchTexts == {<<>>, <<"1", "8">>, <<"-", "1">>, <<"1", " ">>}

BatchOverlapGroups ==
    {<<>>, << <<0, 2>>, <<1, 3>> >>, << <<0, 2>>, <<0, 2>> >>, << <<0, 1>>, <<2, 3>> >>}

BatchDedupGroups ==
    {<<>>, << <<0, 2, "SSN", 85>>, <<1, 3, "SSN", 99>> >>,
     << <<0, 3, "SSN", 85>>, <<1, 2, "SSN", 85>>, <<3, 4, "SSN", 99>> >>}

BatchEntityMaps ==
    {<<>>, [SSN |-> 1], [SSN |-> 1, DIAGNOSIS |-> 2], [ssn |-> 2, EMAIL |-> 1, WIDGET |-> 3]}

BatchScoreItems ==
    {<<e, x, 85>> : e \in BatchEntityMaps, x \in {"PRIVATE", "public"}}

IbanDE ==
    <<"D", "E", "8", "9", "3", "7", "0", "4", "0", "0", "4", "4", "0", "5", "3",
      "2", "0", "1", "3", "0", "0", "0">>

BatchIbans ==
    {IbanDE, [IbanDE EXCEPT ![1] = "d"], [IbanDE EXCEPT ![6] = "4"],
     [IbanDE EXCEPT ![6] = EAcute], [IbanDE EXCEPT ![4] = EAcute],
     SubSeq(IbanDE, 1, 4)}

BatchItems(op) ==
    CASE op = "matcher.rs find_matches_batch" -> BatchTexts
      [] op = "lib.rs find_matches_batch" -> BatchTexts
      [] op = "batch_overlap_check" -> BatchOverlapGroups
      [] op = "batch_deduplicate" -> BatchDedupGroups
      [] op = "score_entities_batch" -> BatchScoreItems
      [] op = "checksum_batch" -> BatchIbans

\* The call: the matchers are those PatternMatcher::new gives in a new
\* process, the items are the caller's choice.
InitBatch ==
    /\ batchOp \in BatchOps
    /\ batchInput \in SeqsUpTo(BatchItems(batchOp), MaxBatch)
    /\ validator_name \in (IF batchOp = "checksum_batch" THEN ChecksumNames ELSE {""})
    /\ allow_identical \in (IF batchOp = "batch_overlap_check" THEN BOOLEAN ELSE {TRUE})
    /\ batchSlots = [k \in 1..Len(batchInput) |-> <<>>]
    /\ batchPc = "running"
    /\ batchOut = <<>>
    /\ singleOut = <<>>
    /\ spans = <<>> /\ spanPc = "idle" /\ spanOut = <<>>
    /\ COMPILED_PATTERNS = <<compile_patterns(BatchPatterns)>>
    /\ matchers = <<[pattern_count |-> Len(COMPILED_PATTERNS[1].individual_regexes),
                     failed_count |-> Len(BatchPatterns)
                                        - Len(COMPILED_PATTERNS[1].individual_regexes)]>>
    /\ ctorPatterns = <<BatchPatterns>>
    /\ newPanic = FALSE /\ callSelf = 0 /\ callText = <<>>
    /\ mightOut = <<>> /\ findOut = <<>>
    /\ libPatterns = LibBatchPatterns
    /\ libMatcher = <<LibPatternMatcherNew(LibBatchPatterns)>>
    /\ libText = <<>> /\ libOut = <<>>
    /\ OnceIdle /\ PureIdle

\* A worker runs item k (0-based) of the batch.
RunItem(k) ==
    /\ batchPc = "running"
    /\ k + 1 \in 1..Len(batchInput)
    /\ batchSlots[k + 1] = <<>>
    /\ \E o \in ItemOutcomes(batchOp, batchInput[k + 1]) :
          batchSlots' = [batchSlots EXCEPT ![k + 1] = <<o>>]
    /\ UNCHANGED <<batchOp, validator_name, batchInput, batchPc, batchOut, singleOut,
                   spanVars, riskVars, libVars, onceVars,
                   pureVars>>

\* collect(): every item has its value; the values in the order of the items.
Collect ==
    /\ batchPc = "running"
    /\ \A k \in 1..Len(batchInput) : batchSlots[k] # <<>> /\ ~batchSlots[k][1].panic
    /\ batchOut' = <<[k \in 1..Len(batchInput) |-> batchSlots[k][1].value[1]]>>
    /\ batchPc' = "returned"
    /\ UNCHANGED <<batchOp, validator_name, batchInput, batchSlots, singleOut,
                   spanVars, riskVars, libVars, onceVars,
                   pureVars>>

\* A worker has panicked: the batch call unwinds with that panic, whether
\* or not the other items were run.
Propagate ==
    /\ batchPc = "running"
    /\ \E k \in 1..Len(batchInput) : batchSlots[k] # <<>> /\ batchSlots[k][1].panic
    /\ batchPc' = "panicked"
    /\ UNCHANGED <<batchOp, validator_name, batchInput, batchSlots, batchOut, singleOut,
                   spanVars, riskVars, libVars, onceVars,
                   pureVars>>

\* After the batch call, the caller applies the single-item operation to
\* the items, one after the other.
Single ==
    /\ batchPc \in {"returned", "panicked"}
    /\ Len(singleOut) < Len(batchInput)
    /\ \E o \in ItemOutcomes(batchOp, batchInput[Len(singleOut) + 1]) :
          singleOut' = Append(singleOut, o)
    /\ UNCHANGED <<batchOp, validator_name, batchInput, batchSlots, batchPc, batchOut,
                   spanVars, riskVars, libVars, onceVars,
                   pureVars>>

NextBatch ==
    \/ \E k \in 0..(MaxBatch - 1) : RunItem(k)
    \/ Collect
    \/ Propagate
    \/ Single

SpecBatch == InitBatch /\ [][NextBatch]_vars

-----------------------------------------------------------------------------
(* scoring.rs as a state machine: a caller scores an entity map, scores it *)
(* once more, and scores a variant of it in which one key is written in    *)
(* another case or as an alias.                                            *)

ScoreKeys == {"SSN", "us_ssn", "DIAGNOSIS", "EMAIL", "WIDGET"}

\* Other spellings of the keys.
VariantKeys == {"SSN", "ssn", "us_ssn", "US_SSN", "EMAIL", "email", "EMAIL_ADDRESS"}

EntityMaps ==
    UNION {[D -> 0..MaxCount] : D \in {K \in SUBSET ScoreKeys : Cardinality(K) <= MaxEntities}}

Exposures == {"PRIVATE", "INTERNAL", "ORG_WIDE", "PUBLIC", "public", "bogus"}

\* Confidences in [0, 1], in hundredths.
ScoreConfidences == {0, 27, 85, 100}

\* The map with key k renamed to v.
RenameKey(entities, k, v) ==
    [x \in (DOMAIN entities \ {k}) \cup {v} |-> IF x = v THEN entities[k] ELSE entities[x]]

\* The map itself, and the maps in which one key is replaced by another
\* spelling of the same canonical type.
VariantMaps(entities) ==
    {entities} \cup
    {RenameKey(entities, k, v) :
        <<k, v>> \in {kv \in (DOMAIN entities) \X VariantKeys :
                        /\ kv[2] \notin DOMAIN entities
                        /\ normalize_entity(kv[2]) = normalize_entity(kv[1])}}

InitScoring ==
    /\ scoreEntities \in EntityMaps
    /\ scoreExposure \in Exposures
    /\ scoreConfidence \in ScoreConfidences
    /\ scoreEntities2 = <<>>
    /\ scorePc = "input"
    /\ scoreOut = <<>>
    /\ scoreOut2 = <<>>
    /\ coOut = <<>>
    /\ ChecksumIdle
    /\ SpansIdle /\ RiskIdle /\ LibIdle /\ OnceIdle /\ BatchIdle

\* score_entities(entities, exposure, confidence)
ScoreEntities ==
    /\ scorePc = "input"
    /\ \E r \in score_entities(scoreEntities, scoreExposure, scoreConfidence) :
          scoreOut' = <<r>>
    /\ scorePc' = "score_entities"
    /\ UNCHANGED <<scoreEntities, scoreExposure, scoreConfidence, scoreEntities2,
                   scoreOut2, coOut, checksumVars,
                   spanVars, riskVars, libVars, onceVars, batchVars>>

\* The same call once more.
ScoreEntitiesAgain ==
    /\ scorePc = "score_entities"
    /\ \E r \in score_entities(scoreEntities, scoreExposure, scoreConfidence) :
          scoreOut' = Append(scoreOut, r)
    /\ scorePc' = "score_entities again"
    /\ UNCHANGED <<scoreEntities, scoreExposure, scoreConfidence, scoreEntities2,
                   scoreOut2, coOut, checksumVars,
                   spanVars, riskVars, libVars, onceVars, batchVars>>

\* Then score_entities(entities2, exposure, confidence), entities2 being the
\* map or the map with one key spelled another way.
ScoreVariant ==
    /\ scorePc = "score_entities"
    /\ \E entities2 \in VariantMaps(scoreEntities) :
          /\ scoreEntities2' = entities2
          /\ \E r \in score_entities(entities2, scoreExposure, scoreConfidence) :
                scoreOut2' = <<r>>
    /\ scorePc' = "score_entities variant"
    /\ UNCHANGED <<scoreEntities, scoreExposure, scoreConfidence,
                   scoreOut, coOut, checksumVars,
                   spanVars, riskVars, libVars, onceVars, batchVars>>

\* The sum of the counts of the keys.
RECURSIVE SumCounts(_, _)
SumCounts(entities, keys) ==
    IF keys = {} THEN 0
    ELSE LET k == CHOOSE x \in keys : TRUE
         IN  entities[k] + SumCounts(entities, keys \ {k})

\* The map a caller gets by counting under the canonical types: one key for
\* each normalised type, with the sum of the counts of its spellings.
MergedMap(entities) ==
    [t \in {normalize_entity(k) : k \in DOMAIN entities} |->
        SumCounts(entities, {k \in DOMAIN entities : normalize_entity(k) = t})]

\* Then score_entities(merged, exposure, confidence).
ScoreMerged ==
    /\ scorePc = "score_entities"
    /\ scoreEntities2' = MergedMap(scoreEntities)
    /\ \E r \in score_entities(MergedMap(scoreEntities), scoreExposure, scoreConfidence) :
          scoreOut2' = <<r>>
    /\ scorePc' = "score_entities merged"
    /\ UNCHANGED <<scoreEntities, scoreExposure, scoreConfidence,
                   scoreOut, coOut, checksumVars,
                   spanVars, riskVars, libVars, onceVars, batchVars>>

\* Then score_entities(entities, exposure2, confidence) for another exposure;
\* the result carries the exposure it was computed for.
ScoreOtherExposure ==
    /\ scorePc = "score_entities"
    /\ scoreEntities2' = scoreEntities
    /\ \E exposure2 \in Exposures :
          \E r \in score_entities(scoreEntities, exposure2, scoreConfidence) :
             scoreOut2' = <<r>>
    /\ scorePc' = "score_entities other exposure"
    /\ UNCHANGED <<scoreEntities, scoreExposure, scoreConfidence,
                   scoreOut, coOut, checksumVars,
                   spanVars, riskVars, libVars, onceVars, batchVars>>

NextScoring ==
    \/ ScoreEntities
    \/ ScoreEntitiesAgain
    \/ ScoreVariant
    \/ ScoreMerged
    \/ ScoreOtherExposure

SpecScoring == InitScoring /\ [][NextScoring]_vars

-----------------------------------------------------------------------------
(* get_co_occurrence_multiplier applied to entity maps that make every set *)
(* of categories present.                                                  *)

\* One entity type of each category, and one of no category.
CategoryKeys ==
    {"SSN", "DIAGNOSIS", "CREDIT_CARD", "EMAIL", "PASSWORD", "NAME",
     "CLASSIFICATION_LEVEL", "WIDGET"}

CategoryMaps == {[k \in D |-> 1] : D \in SUBSET CategoryKeys}

InitCoOccurrence ==
    /\ scoreEntities \in CategoryMaps
    /\ scoreExposure = ""
    /\ scoreConfidence = 0
    /\ scoreEntities2 = <<>>
    /\ scorePc = "input"
    /\ scoreOut = <<>>
    /\ scoreOut2 = <<>>
    /\ coOut = <<>>
    /\ ChecksumIdle
    /\ SpansIdle /\ RiskIdle /\ LibIdle /\ OnceIdle /\ BatchIdle

GetCoOccurrenceMultiplier ==
    /\ scorePc = "input"
    /\ coOut' = <<get_co_occurrence_multiplier(scoreEntities)>>
    /\ scorePc' = "get_co_occurrence_multiplier"
    /\ UNCHANGED <<scoreEntities, scoreExposure, scoreConfidence, scoreEntities2,
                   scoreOut, scoreOut2, checksumVars,
                   spanVars, riskVars, libVars, onceVars, batchVars>>

NextCoOccurrence == GetCoOccurrenceMultiplier

SpecCoOccurrence == InitCoOccurrence /\ [][NextCoOccurrence]_vars

-----------------------------------------------------------------------------
(* checksum.rs: one call of checksum_ssn, checksum_credit_card or          *)
(* checksum_iban on a string of the caller's choice.                       *)

\* The string of the decimal digits ds.
DigitString(ds) == [k \in 1..Len(ds) |-> AsciiDigits[ds[k] + 1]]

CardPrefixes ==
    {<<4>>, <<5, 0>>, <<5, 1>>, <<5, 5>>, <<5, 6>>,
     <<2, 2, 2, 0>>, <<2, 2, 2, 1>>, <<2, 7, 2, 0>>, <<2, 7, 2, 1>>,
     <<3, 3>>, <<3, 4>>, <<3, 7>>, <<6, 0, 1, 0>>, <<6, 0, 1, 1>>, <<6, 5>>,
     <<6, 4, 3>>, <<6, 4, 4>>, <<6, 4, 9>>, <<3, 5>>, <<3, 6>>,
     <<2, 9, 9>>, <<3, 0, 0>>, <<3, 0, 5>>, <<3, 0, 6>>, <<3, 8>>, <<3, 9>>,
     <<1, 2>>, <<9>>}

CardLengths == {12, 13, 16, 19, 20}

CardFiller == <<5, 3, 2, 0, 1, 5, 1, 1, 2, 8, 3, 0, 3, 6, 6, 7, 1, 9, 2>>

\* A card number of n digits: the prefix, digits of the filler, and a last
\* digit d.
CardDigits(prefix, n, d) ==
    DigitString(prefix \o SubSeq(CardFiller, 1, n - Len(prefix) - 1) \o <<d>>)

\* The ways the caller writes the digits: bare, in groups with separators,
\* and with other characters around them.
CardSpellings(digits) ==
    {digits,
     SubSeq(digits, 1, 4) \o <<"-">> \o SubSeq(digits, 5, 8) \o <<" ">>
        \o SubSeq(digits, 9, Len(digits)),
     <<"#">> \o digits \o <<EAcute>>}

CardInputs ==
    UNION {CardSpellings(CardDigits(prefix, n, d)) :
             <<prefix, n, d>> \in CardPrefixes \X CardLengths \X (0..9)}

SsnAreas ==
    {<<0, 0, 0>>, <<0, 0, 1>>, <<1, 2, 3>>, <<6, 6, 6>>, <<6, 6, 7>>,
     <<8, 9, 9>>, <<9, 0, 0>>, <<9, 9, 9>>}

SsnGroups == {<<0, 0>>, <<0, 1>>, <<4, 5>>}

SsnSerials == {<<0, 0, 0, 0>>, <<0, 0, 0, 1>>, <<6, 7, 8, 9>>}

SsnSeparators == {<<>>, <<"-">>, <<" ">>, <<"-", " ">>, <<"/">>, <<Tab>>}

SsnAffixes == {<<>>, <<" ">>, <<Newline>>, <<Tab>>, <<"x">>, <<"1">>, <<"-">>}

\* area, group and serial joined by a separator, between two affixes.
SsnSpelling(area, group, serial, sep, before, after) ==
    before \o DigitString(area) \o sep \o DigitString(group) \o sep
       \o DigitString(serial) \o after

SsnInputs ==
    {SsnSpelling(x[1], x[2], x[3], x[4], x[5], x[6]) :
        x \in SsnAreas \X SsnGroups \X SsnSerials \X SsnSeparators
                \X SsnAffixes \X SsnAffixes}
    \cup {<<>>, <<" ">>, <<"-">>, SubSeq(DigitString(<<1, 2, 3, 4, 5, 6, 7, 8>>), 1, 8)}

IbanInputs ==
    BatchIbans \cup
    {[IbanDE EXCEPT ![3] = EAcute], [IbanDE EXCEPT ![9] = "-"],
     IbanDE \o <<"0">>, SubSeq(IbanDE, 1, 14),
     SubSeq(IbanDE, 1, 4) \o <<" ">> \o SubSeq(IbanDE, 5, Len(IbanDE))}

ChecksumInputs(name) ==
    CASE name = "checksum_ssn" -> SsnInputs
      [] name = "checksum_credit_card" -> CardInputs
      [] name = "checksum_iban" -> IbanInputs

InitChecksum ==
    /\ checksumName \in {"checksum_ssn", "checksum_credit_card", "checksum_iban"}
    /\ checksumInput \in ChecksumInputs(checksumName)
    /\ checksumPc = "input"
    /\ checksumOut = <<>>
    /\ ScoreIdle
    /\ SpansIdle /\ RiskIdle /\ LibIdle /\ OnceIdle /\ BatchIdle

\* checksum_ssn(ssn)
ChecksumSsn ==
    /\ checksumPc = "input"
    /\ checksumName = "checksum_ssn"
    /\ checksumOut' = <<Returned(checksum_ssn(checksumInput))>>
    /\ checksumPc' = "done"
    /\ UNCHANGED <<checksumName, checksumInput, scoreVars,
                   spanVars, riskVars, libVars, onceVars, batchVars>>

\* checksum_credit_card(cc)
ChecksumCreditCard ==
    /\ checksumPc = "input"
    /\ checksumName = "checksum_credit_card"
    /\ checksumOut' = <<Returned(checksum_credit_card(checksumInput))>>
    /\ checksumPc' = "done"
    /\ UNCHANGED <<checksumName, checksumInput, scoreVars,
                   spanVars, riskVars, libVars, onceVars, batchVars>>

\* checksum_iban(iban)
ChecksumIban ==
    /\ checksumPc = "input"
    /\ checksumName = "checksum_iban"
    /\ checksumOut' = IF checksum_iban_panics(checksumInput)
                      THEN <<Panicked>>
                      ELSE <<Returned(checksum_iban(checksumInput))>>
    /\ checksumPc' = "done"
    /\ UNCHANGED <<checksumName, checksumInput, scoreVars,
                   spanVars, riskVars, libVars, onceVars, batchVars>>

NextChecksum ==
    \/ ChecksumSsn
    \/ ChecksumCreditCard
    \/ ChecksumIban

SpecChecksum == InitChecksum /\ [][NextChecksum]_vars

-----------------------------------------------------------------------------
(* The Luhn entry points, called one after the other on one string of      *)
(* digits: luhn of src/validators.rs, validate_luhn of the openlabels       *)
(* validators.rs, luhn_check_str of checksum.rs.                            *)

LuhnInputs ==
    SeqsUpTo(Range(AsciiDigits), MaxShortDigits)
      \cup {CardDigits(x[1], x[2], x[3]) : x \in CardPrefixes \X CardLengths \X (0..9)}

InitLuhn ==
    /\ checksumName = "luhn entry points"
    /\ checksumInput \in LuhnInputs
    /\ checksumPc = "input"
    /\ checksumOut = <<>>
    /\ ScoreIdle
    /\ SpansIdle /\ RiskIdle /\ LibIdle /\ OnceIdle /\ BatchIdle

\* luhn(number)
Luhn ==
    /\ checksumPc = "input"
    /\ checksumName = "luhn entry points"
    /\ checksumOut' = Append(checksumOut, Returned(luhn(checksumInput)))
    /\ checksumPc' = "luhn"
    /\ UNCHANGED <<checksumName, checksumInput, scoreVars,
                   spanVars, riskVars, libVars, onceVars, batchVars>>

\* validate_luhn(text)
ValidateLuhn ==
    /\ checksumPc = "luhn"
    /\ checksumOut' = Append(checksumOut, Returned(validate_luhn(checksumInput)))
    /\ checksumPc' = "validate_luhn"
    /\ UNCHANGED <<checksumName, checksumInput, scoreVars,
                   spanVars, riskVars, libVars, onceVars, batchVars>>

\* luhn_check_str(text)
LuhnCheckStr ==
    /\ checksumPc = "validate_luhn"
    /\ checksumOut' = Append(checksumOut, Returned(luhn_check_str(checksumInput)))
    /\ checksumPc' = "luhn_check_str"
    /\ UNCHANGED <<checksumName, checksumInput, scoreVars,
                   spanVars, riskVars, libVars, onceVars, batchVars>>

NextLuhn ==
    \/ Luhn
    \/ ValidateLuhn
    \/ LuhnCheckStr

SpecLuhn == InitLuhn /\ [][NextLuhn]_vars

-----------------------------------------------------------------------------
(* The two NPI validators, called one after the other on one string:       *)
(* checksum_npi of checksum.rs and validate_npi of validators.rs.          *)

NpiFirstDigits == {0, 1, 2, 3, 9}

NpiMiddles == {<<2, 3, 4, 5, 6, 7, 8, 9>>, <<0, 0, 0, 0, 0, 0, 0, 0>>}

\* The digits written bare, in groups, and with one digit less or more.
NpiSpellings(digits) ==
    {digits,
     SubSeq(digits, 1, 5) \o <<"-">> \o SubSeq(digits, 6, Len(digits)),
     SubSeq(digits, 1, Len(digits) - 1),
     <<"1">> \o digits}

NpiInputs ==
    UNION {NpiSpellings(DigitString(<<x[1]>> \o x[2] \o <<x[3]>>)) :
             x \in NpiFirstDigits \X NpiMiddles \X (0..9)}

InitNpi ==
    /\ checksumName = "npi validators"
    /\ checksumInput \in NpiInputs
    /\ checksumPc = "input"
    /\ checksumOut = <<>>
    /\ ScoreIdle
    /\ SpansIdle /\ RiskIdle /\ LibIdle /\ OnceIdle /\ BatchIdle

\* checksum_npi(npi)
ChecksumNpi ==
    /\ checksumPc = "input"
    /\ checksumName = "npi validators"
    /\ checksumOut' = Append(checksumOut, Returned(checksum_npi(checksumInput)))
    /\ checksumPc' = "checksum_npi"
    /\ UNCHANGED <<checksumName, checksumInput, scoreVars,
                   spanVars, riskVars, libVars, onceVars, batchVars>>

\* validate_npi(text)
ValidateNpi ==
    /\ checksumPc = "checksum_npi"
    /\ checksumOut' = Append(checksumOut, Returned(validate_npi(checksumInput)))
    /\ checksumPc' = "validate_npi"
    /\ UNCHANGED <<checksumName, checksumInput, scoreVars,
                   spanVars, riskVars, libVars, onceVars, batchVars>>

NextNpi ==
    \/ ChecksumNpi
    \/ ValidateNpi

SpecNpi == InitNpi /\ [][NextNpi]_vars

-----------------------------------------------------------------------------
(* Properties of the span functions. *)

\* Two spans overlap: start_a < end_b and start_b < end_a.
Overlap(a, b) == a[1] < b[2] /\ b[1] < a[2]

SamePosition(a, b) == a[1] = b[1] /\ a[2] = b[2]

\* The all-pairs comparison: every (i, j), i < j, 0-based, whose spans
\* overlap, the identical ones left out iff allow.
AllPairsOverlaps(sp, allow) ==
    {<<i - 1, j - 1>> : <<i, j>> \in
        {q \in (1..Len(sp)) \X (1..Len(sp)) :
            /\ q[1] < q[2]
            /\ Overlap(sp[q[1]], sp[q[2]])
            /\ ~(allow /\ SamePosition(sp[q[1]], sp[q[2]]))}}

\* C9: check_overlaps returns exactly one pair (i, j), i < j, for every two
\* distinct overlapping spans and no other pair, a pair of identical
\* position left out iff allow_identical: the sorted sweep with its early
\* exit reports what the all-pairs comparison reports, each pair once.
C9_SweepEqualsAllPairs ==
    spanPc = "check_overlaps" =>
        /\ Range(spanOut) = AllPairsOverlaps(spans, allow_identical)
        /\ Len(spanOut) = Cardinality(AllPairsOverlaps(spans, allow_identical))

\* A call with allow_identical that left an identical pair out, reported an
\* overlapping pair and met a pair that does not overlap.
C9_Witness ==
    /\ spanPc = "check_overlaps"
    /\ allow_identical
    /\ spanOut # <<>>
    /\ \E i, j \in 1..Len(spans) : i < j /\ SamePosition(spans[i], spans[j])
    /\ \E i, j \in 1..Len(spans) : ~Overlap(spans[i], spans[j])

\* The span of the two that (start, end) order puts first; the stable sort
\* leaves two spans of identical position in input order.
FirstSorted(sp) == IF SpanLess(sp, 2, 1) THEN 1 ELSE 0

SpanLen(a) == a[2] - a[1]

\* What the resolution rule keeps of two spans, as 0-based indices.
TwoSpanRule(sp) ==
    IF ~Overlap(sp[1], sp[2]) THEN <<0, 1>>
    ELSE IF sp[1][4] > sp[2][4] THEN <<0>>
    ELSE IF sp[2][4] > sp[1][4] THEN <<1>>
    ELSE IF SpanLen(sp[1]) > SpanLen(sp[2]) THEN <<0>>
    ELSE IF SpanLen(sp[2]) > SpanLen(sp[1]) THEN <<1>>
    ELSE <<FirstSorted(sp)>>

\* C10: of exactly two overlapping spans deduplicate_spans keeps only the
\* one of strictly higher confidence; at equal confidence only the strictly
\* longer one; at equal confidence and length only the one first in
\* (start, end) order; two spans that do not overlap, touching ones
\* included, are both kept.
C10_TwoSpanResolution ==
    (spanPc = "deduplicate_spans" /\ Len(spans) = 2) =>
        spanOut = TwoSpanRule(spans)

\* A full tie between two overlapping spans given in reverse sort order: the
\* second input span is the one kept.
C10_Witness ==
    /\ spanPc = "deduplicate_spans"
    /\ Len(spans) = 2
    /\ Overlap(spans[1], spans[2])
    /\ spans[1][4] = spans[2][4]
    /\ SpanLen(spans[1]) = SpanLen(spans[2])
    /\ SpanLess(spans, 2, 1)
    /\ spanOut = <<1>>

-----------------------------------------------------------------------------
(* Properties of the matchers. *)

\* A reported match of `scanned`: 0 <= start < end <= len, its text the
\* range [start, end) of the input and not blank.
WellFormedMatch(start, end, matched, scanned) ==
    /\ 0 <= start /\ start < end /\ end <= Len(scanned)
    /\ matched = Slice(scanned, start, end)
    /\ \E k \in 1..Len(matched) : matched[k] \notin Whitespace

\* C1: every match find_matches returns has non-empty, non-whitespace-only
\* text, 0 <= start < end <= len(text), and text equal to the input range
\* [start, end): for the capture-group matcher (matcher.rs) and for the
\* validator-aware matcher (lib.rs).
C1_MatchesWellFormed ==
    /\ findOut # <<>> =>
         \A k \in 1..Len(findOut[1]) :
            WellFormedMatch(findOut[1][k].start, findOut[1][k].end,
                            findOut[1][k].text, callText)
    /\ libOut # <<>> =>
         \A k \in 1..Len(libOut[1]) :
            WellFormedMatch(libOut[1][k].start, libOut[1][k].end,
                            libOut[1][k].matched_text, libText)

\* C2: might_contain_patterns(text) = false is a guaranteed negative:
\* find_matches(text) then returns no match.
C2_FalseIsGuaranteedNegative ==
    (mightOut = <<FALSE>> /\ findOut # <<>>) => findOut[1] = <<>>

\* C4: a matcher constructed from pattern list P matches texts against P's
\* patterns, whatever was constructed before it in the process.
C4_MatchesOwnPatterns ==
    findOut # <<>> =>
        findOut[1] = find_matches_impl(compile_patterns(ctorPatterns[callSelf]),
                                       callText)

\* The patterns of a list whose regex (at position field) compiles, in order.
RECURSIVE Compilable(_, _)
Compilable(patterns, field) ==
    IF patterns = <<>> THEN <<>>
    ELSE IF RegexNew(Head(patterns)[field]).ok
         THEN <<Head(patterns)>> \o Compilable(Tail(patterns), field)
         ELSE Compilable(Tail(patterns), field)

\* C5: a malformed regex never aborts catalog construction: construction
\* succeeds for every pattern list, the catalog holds exactly the patterns
\* that compile, in their order, and the multi-pattern set, the per-pattern
\* matchers and the metadata have one length and one indexing.  For
\* matcher.rs this is said of the catalog the first constructor call of the
\* process compiles, for lib.rs of every matcher.
C5_MalformedRegexSkipped ==
    /\ COMPILED_PATTERNS # <<>> =>
         LET c == COMPILED_PATTERNS[1]
             good == Compilable(ctorPatterns[1], 1)
         IN  /\ Len(c.regex_set) = Len(good)
             /\ Len(c.individual_regexes) = Len(good)
             /\ Len(c.metadata) = Len(good)
             /\ \A k \in 1..Len(good) :
                  /\ c.regex_set[k] = RegexNew(good[k][1]).re
                  /\ c.individual_regexes[k] = RegexNew(good[k][1]).re
                  /\ c.metadata[k] = [entity_type |-> good[k][2],
                                      confidence |-> good[k][3],
                                      group_idx |-> good[k][4]]
    /\ libMatcher # <<>> =>
         LET good == Compilable(libPatterns, 2)
         IN  /\ libMatcher[1].ok
             /\ Len(libMatcher[1].regex_set) = Len(good)
             /\ Len(libMatcher[1].patterns) = Len(good)
             /\ \A k \in 1..Len(good) :
                  /\ libMatcher[1].regex_set[k] = RegexNew(good[k][2]).re
                  /\ libMatcher[1].patterns[k] =
                        [name |-> good[k][1], regex |-> RegexNew(good[k][2]).re,
                         validator |-> good[k][3], base_confidence |-> good[k][4]]

\* C6: every instance reports pattern_count + failed_count equal to the
\* number of patterns its own constructor got, and failed_count equal to
\* the number of those that do not compile.
C6_CountsOfOwnPatterns ==
    \A k \in 1..Len(matchers) :
        /\ matchers[k].pattern_count + matchers[k].failed_count
              = Len(ctorPatterns[k])
        /\ matchers[k].failed_count
              = Len(ctorPatterns[k]) - Len(Compilable(ctorPatterns[k], 1))

\* C3: when several threads construct a PatternMatcher for the same pattern
\* list at the same time, compile_patterns runs once and its result is
\* stored once; the cell, once filled, holds the complete catalog of the
\* list, and every thread gets that one catalog from get_or_init.
C3_CompiledExactlyOnce ==
    /\ compileCalls <= 1
    /\ installs <= 1
    /\ COMPILED_PATTERNS # <<>> =>
          COMPILED_PATTERNS[1] = compile_patterns(oncePatterns)
    /\ \A t \in DOMAIN threads :
          threads[t].compiled # <<>> =>
              /\ threads[t].compiled = COMPILED_PATTERNS
              /\ threads[t].compiled[1] = compile_patterns(oncePatterns)

\* Every thread has its instance; one thread compiled a list of two or more
\* patterns, one of them malformed, while another thread waited for it.
C3_Witness ==
    /\ threads # <<>>
    /\ \A t \in DOMAIN threads : threads[t].pc = "done"
    /\ \E t \in DOMAIN threads : threads[t].path = "init"
    /\ \E t \in DOMAIN threads : threads[t].path = "waited"
    /\ Len(oncePatterns) >= 2
    /\ Len(COMPILED_PATTERNS[1].individual_regexes) < Len(oncePatterns)
    /\ Len(COMPILED_PATTERNS[1].individual_regexes) >= 1

\* C7: a batch call that returns gives one result per item, in the order of
\* the items, and its k-th result is what the single-item operation gives
\* for the k-th item alone.
C7_BatchEqualsSingle ==
    batchPc = "returned" =>
        /\ Len(batchOut[1]) = Len(batchInput)
        /\ \A k \in 1..Len(singleOut) :
              /\ ~singleOut[k].panic
              /\ batchOut[1][k] = singleOut[k].value[1]

\* What the failing item of a batch is to yield: the empty list, or reject.
BatchDefault(op) == IF op = "checksum_batch" THEN <<FALSE, 0>> ELSE <<>>

\* C8: a panic inside one item does not abort the batch call: the call
\* returns, the item that failed has the default value (empty list, reject)
\* and every other item a result of its own operation.
C8_PanicIsolated ==
    /\ batchPc # "panicked"
    /\ batchPc = "returned" =>
          \A k \in 1..Len(batchInput) :
              IF ItemOutcomes(batchOp, batchInput[k]) = {Panicked}
              THEN batchOut[1][k] = BatchDefault(batchOp)
              ELSE Returned(batchOut[1][k]) \in ItemOutcomes(batchOp, batchInput[k])

\* C11: deduplicate_spans returns distinct original indices in strictly
\* ascending order, each within 0..len(spans)-1; the empty list for the
\* empty input and [0] for a single span.
C11_DedupIndicesAscending ==
    spanPc = "deduplicate_spans" =>
        /\ \A k \in 1..Len(spanOut) : spanOut[k] \in 0..(Len(spans) - 1)
        /\ \A k \in 1..(Len(spanOut) - 1) : spanOut[k] < spanOut[k + 1]
        /\ spans = <<>> => spanOut = <<>>
        /\ Len(spans) = 1 => spanOut = <<0>>

\* Two spans are kept, and the one with the lower index starts after the
\* other: the order of the result is not the order of the sweep.
C11_Witness ==
    /\ spanPc = "deduplicate_spans"
    /\ Len(spans) = 3
    /\ Len(spanOut) = 2
    /\ spans[spanOut[1] + 1][1] > spans[spanOut[2] + 1][1]

\* f64::round of a value in units of 10^-6 that is not negative.
RoundUnits(x) == (x + 500000) \div 1000000

\* C12: for every entity map, exposure and confidence in [0, 1] the result
\* has an integer score in 0..100 and a content_score of at most 100:
\* content_score = min(100, base_score x co_occurrence_multiplier) and
\* score = round(min(100, content_score x exposure_multiplier)).
C12_ScoreBounded ==
    \A k \in 1..Len(scoreOut) :
        LET r == scoreOut[k]
            base == IF DOMAIN scoreEntities = {} THEN 0
                    ELSE BaseScore(scoreEntities, DOMAIN scoreEntities, scoreConfidence)
            content == Min(100000000, base * r.co_occurrence_multiplier)
            final == Min(100000000, TimesTenths(content, r.exposure_multiplier))
        IN  /\ r.score \in 0..100
            /\ r.content_score >= 0 /\ r.content_score <= 1000
            /\ r.content_score = (content + 50000) \div 100000
            /\ r.score = RoundUnits(final)

\* A map of two entity types is scored for PUBLIC exposure at confidence 1:
\* both caps apply, and the score is 100.
C12_Witness ==
    /\ scoreOut # <<>>
    /\ Cardinality(DOMAIN scoreEntities) = 2
    /\ scoreExposure = "PUBLIC"
    /\ scoreConfidence = 100
    /\ scoreOut[1].co_occurrence_multiplier = 20
    /\ scoreOut[1].content_score = 1000
    /\ scoreOut[1].score = 100

\* The tier of an integer score, by the thresholds 80, 55, 31, 11.
TierOfScore(score) ==
    IF score >= 80 THEN "CRITICAL"
    ELSE IF score >= 55 THEN "HIGH"
    ELSE IF score >= 31 THEN "MEDIUM"
    ELSE IF score >= 11 THEN "LOW"
    ELSE "MINIMAL"

\* C13: the tier of every scoring result is determined by its reported
\* integer score: CRITICAL iff score >= 80, HIGH iff 55 <= score < 80,
\* MEDIUM iff 31 <= score < 55, LOW iff 11 <= score < 31, else MINIMAL.
C13_TierFromReportedScore ==
    \A k \in 1..Len(scoreOut) : scoreOut[k].tier = TierOfScore(scoreOut[k].score)

\* The rules all of whose required categories are in the set.
FiredRules(categories) ==
    SelectSeq(CO_OCCURRENCE_RULES, LAMBDA rule : \A c \in rule[1] : c \in categories)

\* The largest multiplier among the rules, 1.0 for no rule.
MaxMultiplier(rules) ==
    IF rules = <<>> THEN 10
    ELSE CHOOSE m \in {rules[k][2] : k \in 1..Len(rules)} :
            \A k \in 1..Len(rules) : rules[k][2] <= m

\* C14: a rule fires iff all its required categories are present; the
\* multiplier is the maximum among the fired rules (1.0 when none fires);
\* triggered_rules is the names of the fired rules whose multiplier is that
\* maximum, in the order of the rule table.
C14_CoOccurrenceIsMaxOfFired ==
    coOut # <<>> =>
        LET fired == FiredRules(get_categories(scoreEntities))
            top == SelectSeq(fired, LAMBDA rule : rule[2] = MaxMultiplier(fired))
        IN  /\ coOut[1][1] = MaxMultiplier(fired)
            /\ coOut[1][2] = [k \in 1..Len(top) |-> top[k][3]]

\* Two rules fire with the same, maximal multiplier, and a third with a
\* lower one: both names are reported, in table order.
C14_Witness ==
    /\ coOut # <<>>
    /\ coOut[1][1] = 15
    /\ coOut[1][2] = <<"credential_exposure", "phi_without_id">>
    /\ Len(FiredRules(get_categories(scoreEntities))) = 3

\* C15: scoring the empty entity map gives score 0, tier MINIMAL, exposure
\* multiplier 1.0, co-occurrence multiplier 1.0, no triggered rule and no
\* category, whatever the exposure and the confidence.
C15_EmptyMapScoresZero ==
    (scoreEntities = <<>> /\ scoreOut # <<>>) =>
        /\ scoreOut[1].score = 0
        /\ scoreOut[1].tier = "MINIMAL"
        /\ scoreOut[1].exposure_multiplier = 10
        /\ scoreOut[1].co_occurrence_multiplier = 10
        /\ scoreOut[1].co_occurrence_rules = <<>>
        /\ scoreOut[1].categories = <<>>

\* The empty map scored under the exposure whose multiplier is the largest.
C15_Witness ==
    /\ scoreEntities = <<>>
    /\ scoreExposure = "PUBLIC"
    /\ scoreConfidence = 100
    /\ scoreOut # <<>>

\* C16: replacing a key of the entity map by another spelling of the same
\* canonical type leaves score, tier, the multipliers, the triggered rules
\* and the categories of the result unchanged.
C16_VariantKeySameResult ==
    (scoreOut # <<>> /\ scoreOut2 # <<>> /\ scoreEntities2 # scoreEntities) =>
        /\ scoreOut2[1].score = scoreOut[1].score
        /\ scoreOut2[1].tier = scoreOut[1].tier
        /\ scoreOut2[1].content_score = scoreOut[1].content_score
        /\ scoreOut2[1].exposure_multiplier = scoreOut[1].exposure_multiplier
        /\ scoreOut2[1].co_occurrence_multiplier = scoreOut[1].co_occurrence_multiplier
        /\ scoreOut2[1].co_occurrence_rules = scoreOut[1].co_occurrence_rules
        /\ scoreOut2[1].categories = scoreOut[1].categories

\* C17: two calls of score_entities with equal arguments return results
\* equal in every field, the order of the triggered rule names and of the
\* categories list included.
C17_ScoringDeterministic ==
    Len(scoreOut) = 2 => scoreOut[1] = scoreOut[2]

-----------------------------------------------------------------------------
(* Properties of the checksum validators. *)

\* What the call returned, once it has.
ChecksumResult == checksumOut[1].value[1]

\* C18: every checksum validator returns a definite (valid, confidence) for
\* every input and never panics; an IBAN with a character that is neither
\* an ASCII letter nor an ASCII digit, a multi-byte one included, gets
\* (false, 0.0).
C18_ChecksumsNeverPanic ==
    checksumOut # <<>> =>
        /\ ~checksumOut[1].panic
        /\ ChecksumResult \in BOOLEAN \X {0, 80, 85, 87, 99}
        /\ (checksumName = "checksum_iban"
              /\ \E k \in 1..Len(checksumInput) :
                    checksumInput[k] \notin
                        Range(AsciiDigits) \cup Range(UpperLetters)
                          \cup Range(LowerLetters) \cup {" "})
           => ChecksumResult = <<FALSE, 0>>

\* The issuer prefixes that are written out digit by digit.
IssuerPrefixes ==
    {<<4>>, <<5, 1>>, <<5, 2>>, <<5, 3>>, <<5, 4>>, <<5, 5>>, <<3, 4>>, <<3, 7>>,
     <<6, 0, 1, 1>>, <<6, 5>>, <<6, 4, 4>>, <<6, 4, 5>>, <<6, 4, 6>>, <<6, 4, 7>>,
     <<6, 4, 8>>, <<6, 4, 9>>, <<3, 5>>, <<3, 6>>, <<3, 0, 0>>, <<3, 0, 1>>,
     <<3, 0, 2>>, <<3, 0, 3>>, <<3, 0, 4>>, <<3, 0, 5>>, <<3, 8>>, <<3, 9>>}

\* The digits ds, as numbers, start with a known issuer prefix.
KnownIssuer(ds) ==
    \/ \E p \in IssuerPrefixes : Len(ds) >= Len(p) /\ SubSeq(ds, 1, Len(p)) = p
    \/ /\ Len(ds) >= 4
       /\ ds[1] * 1000 + ds[2] * 100 + ds[3] * 10 + ds[4] \in 2221..2720

\* The Luhn sum: every second digit from the right, starting with the one
\* before the last, doubled and reduced by 9 when over 9.
RECURSIVE LuhnTotal(_, _)
LuhnTotal(ds, k) ==
    IF k > Len(ds) THEN 0
    ELSE LET v == IF (Len(ds) - k) % 2 = 1 THEN 2 * ds[k] ELSE ds[k]
         IN  (IF v > 9 THEN v - 9 ELSE v) + LuhnTotal(ds, k + 1)

\* The ASCII digits of the input of the call, as numbers.
InputDigits ==
    LET digits == SelectSeq(checksumInput, LAMBDA c : c \in Range(AsciiDigits))
    IN  [k \in 1..Len(digits) |-> IndexIn(AsciiDigits, digits[k]) - 1]

\* C19: checksum_credit_card, on the digits of its input, returns (false, 0)
\* for fewer than 13 or more than 19 digits or no known issuer prefix,
\* (true, 0.87) for a known prefix with a failing Luhn sum, and (true, 0.99)
\* otherwise.
C19_CreditCardGrades ==
    (checksumName = "checksum_credit_card" /\ checksumOut # <<>>) =>
        /\ ~checksumOut[1].panic
        /\ ChecksumResult =
             IF Len(InputDigits) < 13 \/ Len(InputDigits) > 19
                  \/ ~KnownIssuer(InputDigits)
             THEN <<FALSE, 0>>
             ELSE IF LuhnTotal(InputDigits, 1) % 10 # 0 THEN <<TRUE, 87>>
             ELSE <<TRUE, 99>>

\* A number of the newer Mastercard range whose Luhn sum fails.
C19_Witness ==
    /\ checksumName = "checksum_credit_card"
    /\ checksumOut # <<>>
    /\ ChecksumResult = <<TRUE, 87>>
    /\ SubSeq(InputDigits, 1, 4) = <<2, 7, 2, 0>>
    /\ Len(InputDigits) = 19

\* C20: checksum_ssn returns (false, 0) unless the input consists only of
\* ASCII digits, '-' and spaces and has exactly 9 digits; otherwise it is
\* valid, with 0.80 for group 00 or serial 0000, else 0.85 for area 000, 666
\* or 900-999, else 0.99.
C20_SsnGrades ==
    (checksumName = "checksum_ssn" /\ checksumOut # <<>>) =>
        /\ ~checksumOut[1].panic
        /\ ChecksumResult =
             IF \/ \E k \in 1..Len(checksumInput) :
                      checksumInput[k] \notin Range(AsciiDigits) \cup {"-", " "}
                \/ Len(InputDigits) # 9
             THEN <<FALSE, 0>>
             ELSE LET area == SubSeq(InputDigits, 1, 3)
                      group == SubSeq(InputDigits, 4, 5)
                      serial == SubSeq(InputDigits, 6, 9)
                  IN  IF group = <<0, 0>> \/ serial = <<0, 0, 0, 0>>
                      THEN <<TRUE, 80>>
                      ELSE IF area = <<0, 0, 0>> \/ area = <<6, 6, 6>> \/ area[1] = 9
                      THEN <<TRUE, 85>>
                      ELSE <<TRUE, 99>>

\* The input of the call without its leading and trailing whitespace.
InputCore ==
    LET inner == {k \in 1..Len(checksumInput) : checksumInput[k] \notin WhiteSpace}
    IN  IF inner = {} THEN <<>>
        ELSE SubSeq(checksumInput,
                    CHOOSE lo \in inner : \A k \in inner : lo <= k,
                    CHOOSE hi \in inner : \A k \in inner : k <= hi)

\* C20, amended: checksum_ssn returns (false, 0) unless the input without
\* its leading and trailing whitespace is non-empty, consists only of ASCII
\* digits, '-' and spaces and has exactly 9 digits; otherwise it is valid,
\* with 0.80 for group 00 or serial 0000, else 0.85 for area 000, 666 or
\* 900-999, else 0.99.  The confidence is one of 0.99, 0.85, 0.80 and 0.
C20_SsnGradesTrimmed ==
    (checksumName = "checksum_ssn" /\ checksumOut # <<>>) =>
        /\ ~checksumOut[1].panic
        /\ ChecksumResult[2] \in {99, 85, 80, 0}
        /\ ChecksumResult =
             IF \/ \E k \in 1..Len(InputCore) :
                      InputCore[k] \notin Range(AsciiDigits) \cup {"-", " "}
                \/ Len(InputDigits) # 9
             THEN <<FALSE, 0>>
             ELSE LET area == SubSeq(InputDigits, 1, 3)
                      group == SubSeq(InputDigits, 4, 5)
                      serial == SubSeq(InputDigits, 6, 9)
                  IN  IF group = <<0, 0>> \/ serial = <<0, 0, 0, 0>>
                      THEN <<TRUE, 80>>
                      ELSE IF area = <<0, 0, 0>> \/ area = <<6, 6, 6>> \/ area[1] = 9
                      THEN <<TRUE, 85>>
                      ELSE <<TRUE, 99>>

\* A number with area 666 and group 00, written with dashes and followed by
\* a newline: valid, at the lower of the two confidences.
C20_Witness ==
    /\ checksumName = "checksum_ssn"
    /\ checksumOut # <<>>
    /\ ChecksumResult = <<TRUE, 80>>
    /\ SubSeq(InputDigits, 1, 5) = <<6, 6, 6, 0, 0>>
    /\ checksumInput[Len(checksumInput)] = Newline
    /\ checksumInput[4] = "-"

-----------------------------------------------------------------------------
(* Further properties of deduplicate_spans. *)

\* The spans kept, as 1-based positions in the input.
KeptSpans == {spanOut[k] + 1 : k \in 1..Len(spanOut)}

\* C26: for spans with start < end, no two spans kept by deduplicate_spans
\* overlap: end_a <= start_b or end_b <= start_a for kept a # b.
C26_KeptSpansDisjoint ==
    spanPc = "deduplicate_spans" =>
        \A a, b \in KeptSpans :
            a # b => (spans[a][2] <= spans[b][1] \/ spans[b][2] <= spans[a][1])

\* Three spans, the middle one overlapping both others and dropped, the
\* outer two touching: both are kept.
C26_Witness ==
    /\ spanPc = "deduplicate_spans"
    /\ Len(spans) = 3
    /\ spanOut = <<0, 2>>
    /\ Overlap(spans[1], spans[2]) /\ Overlap(spans[2], spans[3])
    /\ spans[3][2] = spans[1][1]

\* C27: every input span that is absent from the output overlaps at least
\* one span that is in the output.
C27_DroppedOnlyForSurvivor ==
    spanPc = "deduplicate_spans" =>
        \A a \in (1..Len(spans)) \ KeptSpans :
            \E b \in KeptSpans : Overlap(spans[a], spans[b])

\* C28: a non-empty input gives a non-empty output, and a span whose
\* confidence is strictly higher than that of every span it overlaps is in
\* the output, wherever it stands in the input.
C28_StrictlyBestKept ==
    spanPc = "deduplicate_spans" =>
        /\ spans # <<>> => spanOut # <<>>
        /\ \A a \in 1..Len(spans) :
              (\A b \in (1..Len(spans)) \ {a} :
                  Overlap(spans[a], spans[b]) => spans[a][4] > spans[b][4])
              => a \in KeptSpans

\* The last input span is the first in the sweep, is shorter than the two
\* spans it overlaps and has the higher confidence: it alone is kept.
C28_Witness ==
    /\ spanPc = "deduplicate_spans"
    /\ Len(spans) = 3
    /\ spanOut = <<2>>
    /\ Overlap(spans[3], spans[1]) /\ Overlap(spans[3], spans[2])
    /\ spans[3][4] > spans[1][4] /\ spans[3][4] > spans[2][4]
    /\ SpanLen(spans[3]) < SpanLen(spans[1])
    /\ SpanLess(spans, 3, 1) /\ SpanLess(spans, 3, 2)

-----------------------------------------------------------------------------
(* Further properties of the scoring. *)

\* C29: an entity map in which keys normalise to the same canonical type
\* gets the same score and content_score as the map with one canonical key
\* carrying the summed count.
C29_MergedKeysSameScore ==
    scorePc = "score_entities merged" =>
        /\ scoreOut2[1].score = scoreOut[1].score
        /\ scoreOut2[1].content_score = scoreOut[1].content_score

\* The place of an exposure string in PRIVATE < INTERNAL < ORG_WIDE < PUBLIC,
\* in any case of letters; an unrecognised string stands with PRIVATE.
ExposureRank(exposure) ==
    CASE exposure \in {"INTERNAL", "internal"} -> 2
      [] exposure \in {"ORG_WIDE", "org_wide"} -> 3
      [] exposure \in {"PUBLIC", "public"} -> 4
      [] OTHER -> 1

TierRank(tier) ==
    CASE tier = "MINIMAL" -> 1
      [] tier = "LOW" -> 2
      [] tier = "MEDIUM" -> 3
      [] tier = "HIGH" -> 4
      [] tier = "CRITICAL" -> 5

\* C30: for a fixed entity map and confidence the score and the tier do not
\* get lower from PRIVATE to INTERNAL to ORG_WIDE to PUBLIC, and an
\* unrecognised exposure string scores exactly as PRIVATE.
C30_MonotoneInExposure ==
    scorePc = "score_entities other exposure" =>
        LET lo == scoreOut[1]
            hi == scoreOut2[1]
        IN  /\ ExposureRank(scoreExposure) <= ExposureRank(hi.exposure) =>
                 /\ lo.score <= hi.score
                 /\ TierRank(lo.tier) <= TierRank(hi.tier)
            /\ ExposureRank(scoreExposure) = ExposureRank(hi.exposure) =>
                 /\ lo.score = hi.score
                 /\ lo.tier = hi.tier
                 /\ lo.content_score = hi.content_score

\* A map scored for INTERNAL and for ORG_WIDE below the cap: the score and
\* the tier both rise.
C30_Witness ==
    /\ scorePc = "score_entities other exposure"
    /\ scoreExposure = "INTERNAL"
    /\ scoreOut2[1].exposure = "ORG_WIDE"
    /\ scoreOut[1].score < scoreOut2[1].score
    /\ scoreOut2[1].score < 100
    /\ TierRank(scoreOut[1].tier) < TierRank(scoreOut2[1].tier)

-----------------------------------------------------------------------------
(* Further properties of the batch entry points and the validators. *)

\* The names checksum_batch knows.
KnownChecksumNames ==
    {"ssn", "credit_card", "npi", "dea", "iban", "vin", "aba_routing",
     "ups_tracking", "fedex_tracking", "usps_tracking", "cusip", "isin"}

\* C22: checksum_batch called with a name that is none of the twelve known
\* names returns (false, 0.0) for every value, as many results as values.
C22_UnknownChecksumRejectsAll ==
    (batchOp = "checksum_batch" /\ validator_name \notin KnownChecksumNames) =>
        /\ batchPc # "panicked"
        /\ batchPc = "returned" =>
              batchOut[1] = [k \in 1..Len(batchInput) |-> <<FALSE, 0>>]

\* Two values under an unknown name, one a valid IBAN and one an IBAN on
\* which checksum_iban panics: both get (false, 0.0).
C22_Witness ==
    /\ batchOp = "checksum_batch"
    /\ validator_name = "no_such_checksum"
    /\ batchPc = "returned"
    /\ batchInput = <<IbanDE, [IbanDE EXCEPT ![4] = EAcute]>>
    /\ batchOut = << <<<<FALSE, 0>>, <<FALSE, 0>>>> >>

\* C23: on every all-digit string each of luhn, validate_luhn and
\* luhn_check_str returns true exactly when the standard mod-10 sum is
\* divisible by 10; the three agree.
C23_LuhnEntryPointsAgree ==
    checksumPc = "luhn_check_str" =>
        \A k \in 1..3 :
            checksumOut[k].value[1] = (LuhnTotal(InputDigits, 1) % 10 = 0)

\* C24: an NPI candidate is accepted iff it has exactly 10 digits, its first
\* digit is 1 or 2, and the Luhn check over 80840 followed by the digits
\* passes, by checksum_npi and by validate_npi alike.
C24_NpiAccepted ==
    checksumPc = "validate_npi" =>
        LET accepted == /\ Len(InputDigits) = 10
                        /\ InputDigits[1] \in {1, 2}
                        /\ LuhnTotal(<<8, 0, 8, 4, 0>> \o InputDigits, 1) % 10 = 0
        IN  /\ checksumOut[1].value[1][1] = accepted
            /\ checksumOut[2].value[1] = accepted

\* The names lib.rs validate has an arm for, of those the model uses, with
\* the boost of each.
KnownValidatorBoosts == {<<"luhn", 15>>}

\* The RawMatch find_matches owes to candidate m of pattern p at this boost.
OwedMatch(p, m, boost) ==
    [pattern_name |-> p.name, start |-> m.start, end |-> m.end,
     matched_text |-> Slice(libText, m.start, m.end),
     confidence |-> Min(p.base_confidence + boost, 100),
     validator |-> p.validator]

\* The matches reported for candidate m of pattern p.
ReportedFor(p, m) ==
    {k \in 1..Len(libOut[1]) :
        /\ libOut[1][k].pattern_name = p.name
        /\ libOut[1][k].start = m.start
        /\ libOut[1][k].end = m.end}

\* C21: for a pattern with a validator name, a candidate the validator
\* rejects is absent from the output of find_matches, an accepted one is
\* reported with confidence min(1.0, base_confidence + boost), and under a
\* name validate does not know every candidate is reported with
\* base_confidence.
C21_ValidatorDecides ==
    libOut # <<>> =>
        \A i \in 1..Len(libMatcher[1].patterns) :
            LET p == libMatcher[1].patterns[i]
                ms == find_iter(p.regex, libText)
            IN  p.validator # NoValidator =>
                  \A j \in 1..Len(ms) :
                     LET txt == Slice(libText, ms[j].start, ms[j].end)
                         reported == ReportedFor(p, ms[j])
                     IN  IF ~ContainsKey(KnownValidatorBoosts, p.validator)
                         THEN \E k \in reported :
                                libOut[1][k] = OwedMatch(p, ms[j], 0)
                         ELSE IF p.validator = "luhn" /\ ~validate_luhn(txt)
                         THEN reported = {}
                         ELSE \E k \in reported :
                                libOut[1][k] =
                                  OwedMatch(p, ms[j],
                                            Get(KnownValidatorBoosts, p.validator))

\* A scan that reports a Luhn-valid number at the cap and a candidate of a
\* pattern whose validator name is unknown.
C21_Witness ==
    /\ libOut # <<>>
    /\ \E k \in 1..Len(libOut[1]) :
         /\ libOut[1][k].validator = "luhn"
         /\ libOut[1][k].confidence = 100
    /\ \E k \in 1..Len(libOut[1]) :
         /\ libOut[1][k].validator = "no_such_validator"
         /\ libOut[1][k].confidence = 50

\* The matches of the scanned text by catalog entry i (from 1).
Candidates(i) == Range(find_iter(COMPILED_PATTERNS[1].individual_regexes[i], callText))

\* Group g took part in match m; g = 0 is the whole match.
Participated(m, g) == g = 0 \/ (g = 1 /\ m.gstart >= 0)

\* Start, end and text of group g of match m.
GroupSpan(m, g) ==
    IF g = 0 THEN <<m.start, m.end, Slice(callText, m.start, m.end)>>
    ELSE <<m.gstart, m.gend, Slice(callText, m.gstart, m.gend)>>

\* Start, end and text of the matches reported for catalog entry i.
ReportedSpans(i) ==
    {<<findOut[1][k].start, findOut[1][k].end, findOut[1][k].text>> :
        k \in {n \in 1..Len(findOut[1]) : findOut[1][n].pattern_id = i - 1}}

NotBlank(t) == \E k \in 1..Len(t) : t[k] \notin Whitespace

\* C25: for a pattern with capture_group_index g > 0 find_matches reports,
\* for every match in which group g took part, the span and text of group
\* g, and nothing for the other matches; for g = 0 it reports every
\* non-overlapping whole match.
C25_GroupSpanReported ==
    findOut # <<>> =>
        \A i \in 1..Len(COMPILED_PATTERNS[1].metadata) :
            LET g == COMPILED_PATTERNS[1].metadata[i].group_idx
            IN  ReportedSpans(i) =
                  {GroupSpan(m, g) : m \in {c \in Candidates(i) : Participated(c, g)}}

\* C25 as amended: the same, of the matches whose selected text is neither
\* empty nor all whitespace; the others are not reported.
C25_VisibleGroupSpanReported ==
    findOut # <<>> =>
        \A i \in 1..Len(COMPILED_PATTERNS[1].metadata) :
            LET g == COMPILED_PATTERNS[1].metadata[i].group_idx
            IN  ReportedSpans(i) =
                  {GroupSpan(m, g) :
                      m \in {c \in Candidates(i) :
                               /\ Participated(c, g)
                               /\ NotBlank(GroupSpan(c, g)[3])}}

\* A scan in which a group's span, shorter than its match, is reported for
\* one pattern and a match whose group is empty is passed over for another.
C25_Witness ==
    /\ findOut # <<>>
    /\ \E i \in 1..Len(COMPILED_PATTERNS[1].metadata) :
         /\ COMPILED_PATTERNS[1].metadata[i].group_idx = 1
         /\ \E m \in Candidates(i) :
              /\ m.gstart > m.start
              /\ GroupSpan(m, 1) \in ReportedSpans(i)
    /\ \E i \in 1..Len(COMPILED_PATTERNS[1].metadata) :
         /\ COMPILED_PATTERNS[1].metadata[i].group_idx = 1
         /\ \E m \in Candidates(i) : m.gstart >= 0 /\ m.gstart = m.gend

=============================================================================
